---- MODULE Spec2Model ----
(***************************************************************************)
(* A model of rcview_pytools.demographics.population_housing and of the    *)
(* geometry and rounding helpers it calls (geometry.as_shapely2,           *)
(* extras.round_significant).                                              *)
(*                                                                         *)
(* Planar geometry is modelled on a grid of unit cells: a ring encloses a  *)
(* set of cells, the area of a polygon is the number of cells it covers,   *)
(* and two geometries intersect when they share a cell.                    *)
(***************************************************************************)
EXTENDS Integers, Sequences, FiniteSets, TLC

\* ------------------------------------------------------------------ bounds

\* Most candidate census blocks one bounding-box query returns.
MaxBlocks == 2

\* Most areas the areas query returns (batch specification).
MaxAreas == 2

\* Most rings of a polygon as_shapely2 is called with on its own.
MaxRings == 3

\* The largest value and the largest precision round_significant is called
\* with on its own.
MaxX == 1300
MaxP == 3

\* ------------------------------------------------------------- geometry

NoValue == "null"

\* A ring of an arcgis polygon: its orientation (LinearRing.is_ccw), the cells
\* it encloses, whether its boundary crosses itself, and whether a LinearRing
\* can be built from its coordinates at all (at least three points).
Ring(ccw, cells, selfx, ok) ==
    [is_ccw |-> ccw, cells |-> cells, selfx |-> selfx, ok |-> ok]

\* The grid: cells 1 2 3 in the lower row and 4 5 6 above them.
Cells == 1..6
Col(c) == (c - 1) % 3
Row(c) == (c - 1) \div 3

\* The polygons of the run, by name: self.rings of an arcgis Polygon.
Rings(shape) ==
    CASE shape = "sq"        -> << Ring(FALSE, {1, 2, 4, 5}, FALSE, TRUE) >>
      [] shape = "bowtie"    -> << Ring(FALSE, {1, 2}, TRUE, TRUE) >>
      [] shape = "nested"    -> << Ring(FALSE, {1, 2, 4, 5}, FALSE, TRUE),
                                   Ring(FALSE, {1}, FALSE, TRUE) >>
      [] shape = "donut"     -> << Ring(FALSE, {1, 2, 4, 5}, FALSE, TRUE),
                                   Ring(TRUE, {5}, FALSE, TRUE) >>
      [] shape = "in"        -> << Ring(FALSE, {1, 4}, FALSE, TRUE) >>
      [] shape = "half"      -> << Ring(FALSE, {2, 3}, FALSE, TRUE) >>
      [] shape = "half_up"   -> << Ring(FALSE, {5, 6}, FALSE, TRUE) >>
      [] shape = "most"      -> << Ring(FALSE, {1, 2, 3, 4}, FALSE, TRUE) >>
      [] shape = "cell5"     -> << Ring(FALSE, {5}, FALSE, TRUE) >>
      [] shape = "hole_only" -> << Ring(TRUE, {1}, FALSE, TRUE) >>
      [] shape = "bad"       -> << Ring(FALSE, {1}, FALSE, FALSE) >>

RECURSIVE SumSeq(_)
SumSeq(s) == IF s = << >> THEN 0 ELSE Head(s) + SumSeq(Tail(s))

RECURSIVE UnionCells(_)
UnionCells(rs) ==
    IF rs = << >> THEN {} ELSE Head(rs).cells \cup UnionCells(Tail(rs))

\* ShapelyPolygon(shell, holes)
Part(shell, holes) == [shell |-> shell, holes |-> holes]

\* The cells a geometry covers: each shell less its holes.
RECURSIVE Region(_)
Region(parts) ==
    IF parts = << >> THEN {}
    ELSE (Head(parts).shell.cells \ UnionCells(Head(parts).holes))
             \cup Region(Tail(parts))

\* geometry.area: the shells' areas less the holes' areas, part by part.
RECURSIVE PolyArea(_)
PolyArea(parts) ==
    IF parts = << >> THEN 0
    ELSE Cardinality(Head(parts).shell.cells)
             - Cardinality(UnionCells(Head(parts).holes))
             + PolyArea(Tail(parts))

\* as_shapely2, lines 55-57: rings by orientation, input order kept.
ExteriorRings(rings) == SelectSeq(rings, LAMBDA r : ~r.is_ccw)
InteriorRings(rings) == SelectSeq(rings, LAMBDA r : r.is_ccw)

\* Mutant of RingIntersects: every interior ring passes the test.
RingIntersects_Always(interior_ring, exterior_ring) == TRUE

\* ShapelyPolygon(interior_ring).intersects(exterior_poly)
RingIntersects(interior_ring, exterior_ring) ==
    interior_ring.cells \cap exterior_ring.cells # {}

\* Mutant of BuildPolys: the rings an exterior ring took stay in the pool.
RECURSIVE BuildPolys_KeepsPool(_, _)
BuildPolys_KeepsPool(exterior_rings, interior_rings) ==
    IF exterior_rings = << >> THEN << >>
    ELSE LET exterior_ring == Head(exterior_rings)
             within_rings == SelectSeq(interior_rings,
                                 LAMBDA r : RingIntersects(r, exterior_ring))
         IN  << Part(exterior_ring, within_rings) >>
                 \o BuildPolys_KeepsPool(Tail(exterior_rings), interior_rings)

\* as_shapely2, lines 60-73: one polygon per exterior ring; each takes the
\* interior rings still in the pool that intersect it.
RECURSIVE BuildPolys(_, _)
BuildPolys(exterior_rings, interior_rings) ==
    IF exterior_rings = << >> THEN << >>
    ELSE LET exterior_ring == Head(exterior_rings)
             within_rings == SelectSeq(interior_rings,
                                 LAMBDA r : RingIntersects(r, exterior_ring))
             outside_rings == SelectSeq(interior_rings,
                                 LAMBDA r : ~RingIntersects(r, exterior_ring))
         IN  << Part(exterior_ring, within_rings) >>
                 \o BuildPolys(Tail(exterior_rings), outside_rings)

\* explain_validity: the reason a geometry is invalid, "Valid Geometry" if none.
SelfIntersects(parts) ==
    \/ \E i \in 1..Len(parts) :
          \/ parts[i].shell.selfx
          \/ \E h \in 1..Len(parts[i].holes) :
                \/ parts[i].holes[h].selfx
                \/ ~(parts[i].holes[h].cells \subseteq parts[i].shell.cells)
    \/ \E i, k \in 1..Len(parts) :
          /\ i # k
          /\ parts[i].shell.cells \cap parts[k].shell.cells # {}
          /\ ~(parts[i].shell.cells \subseteq parts[k].shell.cells)
          /\ ~(parts[k].shell.cells \subseteq parts[i].shell.cells)

NestedShells(parts) ==
    \E i, k \in 1..Len(parts) :
        i # k /\ parts[i].shell.cells \subseteq parts[k].shell.cells

explain_validity(parts) ==
    IF SelfIntersects(parts) THEN "Self-intersection"
    ELSE IF NestedShells(parts) THEN "Nested shells"
    ELSE "Valid Geometry"

is_valid(parts) == explain_validity(parts) = "Valid Geometry"

\* geometry.envelope: the cells of the bounding box of the geometry.
Envelope(parts) ==
    LET region == Region(parts)
    IN  { c \in Cells :
            /\ \E a \in region : Col(a) <= Col(c)
            /\ \E a \in region : Col(a) >= Col(c)
            /\ \E a \in region : Row(a) <= Row(c)
            /\ \E a \in region : Row(a) >= Row(c) }

\* The cells of `region` and of the regions joined to it by common cells.
RECURSIVE Merge(_, _)
Merge(region, regions) ==
    LET touching == { r \in regions : r \cap region # {} }
    IN  IF touching = {} THEN region
        ELSE Merge(region \cup UNION touching, regions \ touching)

\* The pieces the polygons of a geometry fall into when polygons with common
\* cells are joined, the piece of the first polygon first.
RECURSIVE Pieces(_)
Pieces(parts) ==
    IF parts = << >> THEN << >>
    ELSE LET piece == Merge(Region(<< Head(parts) >>),
                            { Region(<< parts[i] >>) : i \in 2..Len(parts) })
             apart == SelectSeq(Tail(parts),
                                LAMBDA q : Region(<< q >>) \cap piece = {})
         IN  << piece >> \o Pieces(apart)

\* poly_shp.buffer(0.0): the boundary is rebuilt around the cells the rings
\* enclose, one simple shell for each piece.
Buffer0(parts) ==
    LET pieces == Pieces(parts)
    IN  [i \in 1..Len(pieces) |->
           Part(Ring(FALSE, pieces[i], FALSE, TRUE), << >>)]

\* Mutant of geom_type: the polygons are always wrapped in a collection.
geom_type_Multi(parts) == "MultiPolygon"

\* Lines 75-78: ShapelyPolygon for one polygon, ShapelyMultiPolygon otherwise;
\* buffer returns the one or the other by the number of pieces.
geom_type(parts) == IF Len(parts) = 1 THEN "Polygon" ELSE "MultiPolygon"

\* Mutant of as_shapely2: every invalid polygon is buffered, whatever the reason.
as_shapely2_FixesAny(rings, fix_self_intersections, warn_invalid) ==
    IF \E i \in 1..Len(rings) : ~rings[i].ok
    THEN [raised |-> TRUE, polys |-> << >>, poly |-> << >>,
          geom_type |-> NoValue, warning |-> NoValue, fixed |-> FALSE]
    ELSE LET polys == BuildPolys(ExteriorRings(rings), InteriorRings(rings))
             invalid_reason == explain_validity(polys)
             fix == /\ ~is_valid(polys)
                    /\ fix_self_intersections
             poly_shp == IF fix THEN Buffer0(polys) ELSE polys
         IN  [raised |-> FALSE,
              polys |-> polys,
              poly |-> poly_shp,
              geom_type |-> geom_type(poly_shp),
              fixed |-> fix,
              warning |-> IF ~is_valid(polys) /\ warn_invalid
                          THEN << "Polygon is not valid", invalid_reason,
                                  IF fix THEN "self-intersections were automatically fixed"
                                  ELSE "" >>
                          ELSE NoValue]

\* Mutant of as_shapely2: no warning is issued for a polygon that was fixed.
as_shapely2_WarnsUnfixed(rings, fix_self_intersections, warn_invalid) ==
    IF \E i \in 1..Len(rings) : ~rings[i].ok
    THEN [raised |-> TRUE, polys |-> << >>, poly |-> << >>,
          geom_type |-> NoValue, warning |-> NoValue, fixed |-> FALSE]
    ELSE LET polys == BuildPolys(ExteriorRings(rings), InteriorRings(rings))
             invalid_reason == explain_validity(polys)
             fix == /\ ~is_valid(polys)
                    /\ invalid_reason = "Self-intersection"
                    /\ fix_self_intersections
             poly_shp == IF fix THEN Buffer0(polys) ELSE polys
         IN  [raised |-> FALSE,
              polys |-> polys,
              poly |-> poly_shp,
              geom_type |-> geom_type(poly_shp),
              fixed |-> fix,
              warning |-> IF ~is_valid(polys) /\ warn_invalid /\ ~fix
                          THEN << "Polygon is not valid", invalid_reason,
                                  IF fix THEN "self-intersections were automatically fixed"
                                  ELSE "" >>
                          ELSE NoValue]

\* Mutant of as_shapely2: the buffer is applied whenever the fix flag is set,
\* whatever the validity of the assembled polygon.
as_shapely2_AlwaysBuffers(rings, fix_self_intersections, warn_invalid) ==
    IF \E i \in 1..Len(rings) : ~rings[i].ok
    THEN [raised |-> TRUE, polys |-> << >>, poly |-> << >>,
          geom_type |-> NoValue, warning |-> NoValue, fixed |-> FALSE]
    ELSE LET polys == BuildPolys(ExteriorRings(rings), InteriorRings(rings))
             invalid_reason == explain_validity(polys)
             fix == fix_self_intersections
             poly_shp == IF fix THEN Buffer0(polys) ELSE polys
         IN  [raised |-> FALSE,
              polys |-> polys,
              poly |-> poly_shp,
              geom_type |-> geom_type(poly_shp),
              fixed |-> fix,
              warning |-> IF ~is_valid(polys) /\ warn_invalid
                          THEN << "Polygon is not valid", invalid_reason,
                                  IF fix THEN "self-intersections were automatically fixed"
                                  ELSE "" >>
                          ELSE NoValue]

\* as_shapely2(self, fix_self_intersections, warn_invalid): the geometry
\* returned and the warning issued, or the exception LinearRing raises.
as_shapely2(rings, fix_self_intersections, warn_invalid) ==
    IF \E i \in 1..Len(rings) : ~rings[i].ok
    THEN [raised |-> TRUE, polys |-> << >>, poly |-> << >>,
          geom_type |-> NoValue, warning |-> NoValue, fixed |-> FALSE]
    ELSE LET polys == BuildPolys(ExteriorRings(rings), InteriorRings(rings))
             invalid_reason == explain_validity(polys)
             fix == /\ ~is_valid(polys)
                    /\ invalid_reason = "Self-intersection"
                    /\ fix_self_intersections
             poly_shp == IF fix THEN Buffer0(polys) ELSE polys
         IN  [raised |-> FALSE,
              polys |-> polys,
              poly |-> poly_shp,
              geom_type |-> geom_type(poly_shp),
              fixed |-> fix,
              warning |-> IF ~is_valid(polys) /\ warn_invalid
                          THEN << "Polygon is not valid", invalid_reason,
                                  IF fix THEN "self-intersections were automatically fixed"
                                  ELSE "" >>
                          ELSE NoValue]

\* ------------------------------------------------------------- arithmetic

\* Mutant of RoundHalfEven: ties are rounded up.
RoundHalfUp(n, d) == (2 * n + d) \div (2 * d)

\* round(): Python's round of n/d to the nearest integer, ties to even.
RoundHalfEven(n, d) ==
    LET q == n \div d
        r == n % d
    IN  IF 2 * r > d THEN q + 1
        ELSE IF 2 * r = d THEN q + (q % 2)
        ELSE q

RECURSIVE Pow10(_)
Pow10(k) == IF k <= 0 THEN 1 ELSE 10 * Pow10(k - 1)

\* Mutant of FloorLog10: the number of digits of x, one more than the floor
\* of its logarithm.
RECURSIVE FloorLog10_CountsDigits(_)
FloorLog10_CountsDigits(x) ==
    IF x < 10 THEN 1 ELSE 1 + FloorLog10_CountsDigits(x \div 10)

\* floor(log10(x)) for an integer x >= 1
RECURSIVE FloorLog10(_)
FloorLog10(x) == IF x < 10 THEN 0 ELSE 1 + FloorLog10(x \div 10)

\* Mutant of Around: the digits dropped are cut off, not rounded.
Around_Truncates(x, decimals) ==
    IF decimals >= 0 THEN x
    ELSE (x \div Pow10(-decimals)) * Pow10(-decimals)

\* numpy.around(x, decimals) of an integer: unchanged for decimals >= 0, else
\* the nearest multiple of 10^(-decimals), ties to even.
Around(x, decimals) ==
    IF decimals >= 0 THEN x
    ELSE RoundHalfEven(x, Pow10(-decimals)) * Pow10(-decimals)

\* What round_significant raises for a negative value.
ValueError == "ValueError"

\* Mutant of round_significant: the sign is not checked, and a negative value
\* is rounded as its magnitude.
round_significant_Unsigned(x, p) ==
    IF x = 0 THEN [raised |-> NoValue, value |-> x]
    ELSE IF x < 0
    THEN [raised |-> NoValue,
          value |-> -Around(-x, -FloorLog10(-x) + (p - 1))]
    ELSE [raised |-> NoValue,
          value |-> Around(x, -FloorLog10(x) + (p - 1))]

\* extras.round_significant(x, p): the value returned, or the exception raised.
round_significant(x, p) ==
    IF x = 0 THEN [raised |-> NoValue, value |-> x]
    ELSE IF x < 0 THEN [raised |-> ValueError, value |-> NoValue]
    ELSE [raised |-> NoValue,
          value |-> Around(x, -FloorLog10(x) + (p - 1))]

\* The default precision of round_significant.
DefaultP == 2

\* Square metres per acre, in hundredths (4046.86), and acres per square mile.
AcreM2x100 == 404686
AcresPerSqMi == 640

\* Square metres in one grid cell: a cell is 1000 m by 1000 m.
CellM2 == 1000 * 1000

\* area_poly.area / 4046.86 / 640, in hundredths of a square mile.
AreaSqMi(poly) ==
    (PolyArea(poly) * CellM2 * 100) \div ((AcreM2x100 * AcresPerSqMi) \div 100)

\* ------------------------------------------------------------------ inputs

\* The methods a caller may pass ('enrich' is handled by another function and
\* never reaches the loop); "none" and "median" are not recognized.
Methods == {"all", "gt50", "wtd", "none", "median"}

\* The shapes an area of the areas layer may have.
AreaShapes == {"sq", "bowtie", "nested", "donut", "bad"}

\* The census blocks layer: GEOID, POP100, HU100 and the polygon of each block.
Block(geoid, pop, hu, shape) ==
    [GEOID |-> geoid, POP100 |-> pop, HU100 |-> hu, SHAPE |-> shape]

CensusLayer ==
    { Block(1, 122, 61, "in"),
      Block(2, 3, 1, "in"),
      Block(3, 1, 3, "half"),
      Block(4, 1, 1, "half_up"),
      Block(5, 3, 2, "most"),
      Block(6, 3, 1, "cell5"),
      Block(7, 3, 1, "nested"),
      Block(8, 1, 1, "bowtie"),
      Block(9, 1, 1, "hole_only"),
      Block(10, 3, 1, "bad") }

\* Lines 149-153: the blocks of the layer the intersects filter on the
\* area's bounding box selects.
Candidates(layer, apoly) ==
    { b \in layer : UnionCells(Rings(b.SHAPE)) \cap Envelope(apoly) # {} }

\* The blocks a query may return: distinct blocks of `layer`, at most n.
BlockLists(layer, n) ==
    UNION { { s \in [1..k -> layer] :
                \A a, b \in 1..k : a # b => s[a] # s[b] } : k \in 0..n }

\* ------------------------------------------------------------------- state

VARIABLES
    pc,                  \* where population_housing is
    method,              \* the method argument (set to None when unrecognized)
    areas,               \* the area rows iterated so far, the last one current
    area_poly,           \* the current area's Shapely geometry
    census_blocks,       \* the current area's candidate blocks
    j,                   \* index of the next candidate block
    acc,                 \* the seven accumulators of the current area
    area_sq_mi,
    processing_errors,
    processing_warnings,
    processing_issues,
    areas_summary,       \* objectid -> summary
    sink,                \* the updates sent to areas_layer.edit_features
    warned,              \* the warnings as_shapely2 issued (warnings.warn)
    printed,             \* whether the processing-issues line was printed
    exception,           \* the exception that left the function called, if any
    call,                \* the helper called on its own, with its arguments
    result,              \* what that call returned
    gis,                 \* the RCViewGIS object: password, folders, requests
    dro                  \* initialize_dro's dro_folder and its spinner

vars == << pc, method, areas, area_poly, census_blocks, j, acc, area_sq_mi,
           processing_errors, processing_warnings, processing_issues,
           areas_summary, sink, warned, printed, exception, call, result,
           gis, dro >>

ZeroAcc ==
    [pop_all |-> 0, pop_gt50 |-> 0, blocks_gt50 |-> 0, pop_wtd |-> 0,
     hu_all |-> 0, hu_gt50 |-> 0, hu_wtd |-> 0]

\* A folder of the user, as gis.users.me.folders lists it.
Folder(title, id) == [title |-> title, id |-> id]
NoFolder == Folder("", 0)

\* The spinner of initialize_dro: its text and whether it spins, failed or
\* succeeded.
Spinner(state, text) == [state |-> state, text |-> text]

\* No portal is involved: population_housing and the helpers use none.
NoGis == [password |-> "", folders |-> << >>, log |-> << >>]
NoDro == [dro_folder |-> NoFolder, spinner |-> Spinner("none", "")]
NoPortal ==
    /\ gis = NoGis
    /\ dro = NoDro

\* No area has been read yet.
NothingRead ==
    /\ method = NoValue
    /\ areas = << >>
    /\ area_poly = << >>
    /\ census_blocks = << >>
    /\ j = 1
    /\ acc = ZeroAcc
    /\ area_sq_mi = 0
    /\ processing_errors = << >>
    /\ processing_warnings = << >>
    /\ processing_issues = FALSE
    /\ areas_summary = << >>
    /\ sink = << >>
    /\ warned = << >>
    /\ printed = FALSE
    /\ exception = NoValue

\* What a helper called on its own has returned: nothing yet, or a value.
NoResult == [returned |-> FALSE]
Returned(value) == [returned |-> TRUE, value |-> value]

Init ==
    /\ pc = "start"
    /\ NothingRead
    /\ NoPortal
    /\ call = NoValue
    /\ result = NoResult

\* --------------------------------------------------------- the block loop

\* Mutant of IntProp: the intersection is divided by the area of the area
\* polygon, not by the block's own area.
IntProp_OverArea(bpoly, apoly) ==
    [num |-> Cardinality(Region(bpoly) \cap Region(apoly)),
     den |-> PolyArea(apoly)]

\* intersection.area / block_poly.area, as the fraction num/den
IntProp(bpoly, apoly) ==
    [num |-> Cardinality(Region(bpoly) \cap Region(apoly)),
     den |-> PolyArea(bpoly)]

\* Mutant of GreaterThanHalf: the comparison is not strict.
GreaterThanHalf_OrEqual(int_prop) == 2 * int_prop.num >= int_prop.den

\* int_prop > 0.5
GreaterThanHalf(int_prop) == 2 * int_prop.num > int_prop.den

\* x * (int_prop > 0.5): a bool multiplies as 0 or 1
TimesBool(x, b) == IF b THEN x ELSE 0

\* Mutant of Weighted: ties are rounded up.
Weighted_HalfUp(x, int_prop) ==
    (2 * x * int_prop.num + int_prop.den) \div (2 * int_prop.den)

\* round(x * int_prop)
Weighted(x, int_prop) == RoundHalfEven(x * int_prop.num, int_prop.den)

\* Lines 185-195: one block added to the accumulators.
Accumulate(a, block, int_prop) ==
    [pop_all     |-> a.pop_all + block.POP100,
     pop_gt50    |-> a.pop_gt50 + TimesBool(block.POP100, GreaterThanHalf(int_prop)),
     pop_wtd     |-> a.pop_wtd + Weighted(block.POP100, int_prop),
     hu_all      |-> a.hu_all + block.HU100,
     hu_gt50     |-> a.hu_gt50 + TimesBool(block.HU100, GreaterThanHalf(int_prop)),
     hu_wtd      |-> a.hu_wtd + Weighted(block.HU100, int_prop),
     blocks_gt50 |-> a.blocks_gt50 + TimesBool(1, GreaterThanHalf(int_prop))]

\* Mutant of BlockPoly: the block is converted with repair disabled.
BlockPoly_NoRepair(block) == as_shapely2(Rings(block.SHAPE), FALSE, TRUE)

\* block.SHAPE.as_shapely2(), line 168: both arguments at their defaults.
BlockPoly(block) == as_shapely2(Rings(block.SHAPE), TRUE, TRUE)

\* Mutant of AreaPoly: the area is converted with repair disabled.
AreaPoly_NoRepair(area) == as_shapely2(Rings(area.SHAPE), FALSE, TRUE)

\* area.SHAPE.as_shapely2(), line 142
AreaPoly(area) == as_shapely2(Rings(area.SHAPE), TRUE, TRUE)

AreaWarning(poly) ==
    << "Unable to convert area to valid polygon", explain_validity(poly) >>

BlockWarning(block, poly) ==
    << "Unable to convert census block to valid polygon", block.GEOID,
       explain_validity(poly) >>

BlockError(block) == << "Unable to intersect census block", block.GEOID >>

\* Mutant of BlockInvalid: no block is skipped as invalid.
BlockInvalid_Never(poly) == FALSE

\* Line 169: the block is skipped when its polygon is not valid.
BlockInvalid(poly) == ~is_valid(poly)

Warn(w) == IF w = NoValue THEN warned ELSE Append(warned, w)

\* An exception leaves population_housing: nothing is returned.
Raise(e) ==
    /\ pc' = "raised"
    /\ exception' = e

\* population_housing is called (lines 124-136): the areas are queried.
Call ==
    /\ pc = "start"
    /\ \E m \in Methods : method' = m
    /\ pc' = "areas"
    /\ UNCHANGED << areas, area_poly, census_blocks, j, acc, area_sq_mi,
                    processing_errors, processing_warnings, processing_issues,
                    areas_summary, sink, warned, printed, exception,
                    call, result,
                    gis, dro >>

\* A row as the areas query returns it: the four fields are still null.
AreaRow(objectid, shape) ==
    [objectid |-> objectid, SHAPE |-> shape, population |-> NoValue,
     housing |-> NoValue, area_sq_mi |-> NoValue, method |-> NoValue]

\* Mutant of BeginArea: the two lists of issues are not emptied for the next
\* area.
BeginArea_KeepsIssues(limit, shapes, layer, n) ==
    /\ pc = "areas"
    /\ Len(areas) < limit
    /\ \E shape \in shapes :
         LET area == AreaRow(Len(areas) + 1, shape)
             conv == AreaPoly(area)
         IN  /\ areas' = Append(areas, area)
             /\ processing_errors' = processing_errors
             /\ IF conv.raised
                THEN /\ Raise("ValueError")
                     /\ processing_warnings' = processing_warnings
                     /\ UNCHANGED << area_poly, census_blocks, j, acc,
                                     area_sq_mi, warned >>
                ELSE /\ warned' = Warn(conv.warning)
                     /\ area_poly' = conv.poly
                     /\ processing_warnings' =
                            IF ~is_valid(conv.poly)
                            THEN Append(processing_warnings,
                                        AreaWarning(conv.poly))
                            ELSE processing_warnings
                     /\ \E blocks \in BlockLists(Candidates(layer, conv.poly), n) :
                            census_blocks' = blocks
                     /\ area_sq_mi' = AreaSqMi(conv.poly)
                     /\ acc' = ZeroAcc
                     /\ j' = 1
                     /\ pc' = "blocks"
                     /\ UNCHANGED exception
    /\ UNCHANGED << method, processing_issues, areas_summary, sink, printed,
                    call, result,
                    gis, dro >>

\* Lines 138-165: the loop takes the next area, converts it, queries its
\* candidate blocks and zeroes the accumulators.
BeginArea(limit, shapes, layer, n) ==
    /\ pc = "areas"
    /\ Len(areas) < limit
    /\ \E shape \in shapes :
         LET area == AreaRow(Len(areas) + 1, shape)
             conv == AreaPoly(area)
         IN  /\ areas' = Append(areas, area)
             /\ processing_errors' = << >>
             /\ IF conv.raised
                THEN /\ Raise("ValueError")
                     /\ processing_warnings' = << >>
                     /\ UNCHANGED << area_poly, census_blocks, j, acc,
                                     area_sq_mi, warned >>
                ELSE /\ warned' = Warn(conv.warning)
                     /\ area_poly' = conv.poly
                     /\ processing_warnings' =
                            IF ~is_valid(conv.poly)
                            THEN << AreaWarning(conv.poly) >>
                            ELSE << >>
                     /\ \E blocks \in BlockLists(Candidates(layer, conv.poly), n) :
                            census_blocks' = blocks
                     /\ area_sq_mi' = AreaSqMi(conv.poly)
                     /\ acc' = ZeroAcc
                     /\ j' = 1
                     /\ pc' = "blocks"
                     /\ UNCHANGED exception
    /\ UNCHANGED << method, processing_issues, areas_summary, sink, printed,
                    call, result,
                    gis, dro >>

\* Lines 151-153: the census query fails (the service is unreachable).
QueryFails(limit, shapes) ==
    /\ pc = "areas"
    /\ Len(areas) < limit
    /\ \E shape \in shapes :
         LET area == AreaRow(Len(areas) + 1, shape)
             conv == AreaPoly(area)
         IN  /\ ~conv.raised
             /\ areas' = Append(areas, area)
             /\ warned' = Warn(conv.warning)
             /\ area_poly' = conv.poly
             /\ processing_errors' = << >>
             /\ processing_warnings' =
                    IF ~is_valid(conv.poly) THEN << AreaWarning(conv.poly) >>
                    ELSE << >>
    /\ Raise("QueryError")
    /\ UNCHANGED << method, census_blocks, j, acc, area_sq_mi,
                    processing_issues, areas_summary, sink, printed,
                    call, result,
                    gis, dro >>

\* Lines 167-195 for block j when the intersection returns.
BlockStep ==
    /\ pc = "blocks"
    /\ j <= Len(census_blocks)
    /\ LET block == census_blocks[j]
           conv == BlockPoly(block)
           int_prop == IntProp(conv.poly, area_poly)
       IN  IF conv.raised
           THEN /\ Raise("ValueError")
                /\ UNCHANGED << j, acc, processing_warnings, warned >>
           ELSE /\ warned' = Warn(conv.warning)
                /\ IF BlockInvalid(conv.poly)
                   THEN /\ processing_warnings' =
                               Append(processing_warnings,
                                      BlockWarning(block, conv.poly))
                        /\ j' = j + 1
                        /\ UNCHANGED << acc, pc, exception >>
                   ELSE IF int_prop.den = 0
                   THEN /\ Raise("ZeroDivisionError")
                        /\ UNCHANGED << j, acc, processing_warnings >>
                   ELSE /\ acc' = Accumulate(acc, block, int_prop)
                        /\ j' = j + 1
                        /\ UNCHANGED << processing_warnings, pc, exception >>
    /\ UNCHANGED << method, areas, area_poly, census_blocks, area_sq_mi,
                    processing_errors, processing_issues, areas_summary, sink,
                    printed, call, result,
                    gis, dro >>

\* Mutant of IntersectionRaises: the handler does not skip the block, and the
\* lines after it add the block to the accumulators.
IntersectionRaises_FallsThrough ==
    /\ pc = "blocks"
    /\ j <= Len(census_blocks)
    /\ LET block == census_blocks[j]
           conv == BlockPoly(block)
       IN  /\ ~conv.raised
           /\ ~BlockInvalid(conv.poly)
           /\ PolyArea(conv.poly) # 0
           /\ warned' = Warn(conv.warning)
           /\ processing_errors' = Append(processing_errors, BlockError(block))
           /\ acc' = Accumulate(acc, block, IntProp(conv.poly, area_poly))
    /\ j' = j + 1
    /\ UNCHANGED << pc, method, areas, area_poly, census_blocks,
                    area_sq_mi, processing_warnings, processing_issues,
                    areas_summary, sink, printed, exception, call, result,
                    gis, dro >>

\* Lines 175-181 for block j when block_poly.intersection(area_poly) raises.
IntersectionRaises ==
    /\ pc = "blocks"
    /\ j <= Len(census_blocks)
    /\ LET block == census_blocks[j]
           conv == BlockPoly(block)
       IN  /\ ~conv.raised
           /\ ~BlockInvalid(conv.poly)
           /\ warned' = Warn(conv.warning)
           /\ processing_errors' = Append(processing_errors, BlockError(block))
    /\ j' = j + 1
    /\ UNCHANGED << pc, method, areas, area_poly, census_blocks, acc,
                    area_sq_mi, processing_warnings, processing_issues,
                    areas_summary, sink, printed, exception, call, result,
                    gis, dro >>

\* ------------------------------------------------- summary and update

\* Mutant of Summary: the 'all' sums and the 'gt50' sums are stored under each
\* other's keys.
Summary_Swapped(blocks, a, sq_mi) ==
    [no_blocks_all  |-> Len(blocks),
     no_blocks_gt50 |-> a.blocks_gt50,
     pop_all  |-> a.pop_gt50,
     pop_gt50 |-> a.pop_all,
     pop_wtd  |-> a.pop_wtd,
     hu_all   |-> a.hu_gt50,
     hu_gt50  |-> a.hu_all,
     hu_wtd   |-> a.hu_wtd,
     area_sq_mi |-> sq_mi]

\* Mutant of Summary: no_blocks_all leaves out the skipped blocks.
Summary_CountsAggregated(blocks, a, sq_mi) ==
    [no_blocks_all  |-> Len(blocks) - Len(processing_errors)
                            - Len(SelectSeq(processing_warnings,
                                            LAMBDA w : Len(w) = 3)),
     no_blocks_gt50 |-> a.blocks_gt50,
     pop_all  |-> a.pop_all,
     pop_gt50 |-> a.pop_gt50,
     pop_wtd  |-> a.pop_wtd,
     hu_all   |-> a.hu_all,
     hu_gt50  |-> a.hu_gt50,
     hu_wtd   |-> a.hu_wtd,
     area_sq_mi |-> sq_mi]

\* Lines 197-207: the summary record of the area.
Summary(blocks, a, sq_mi) ==
    [no_blocks_all  |-> Len(blocks),
     no_blocks_gt50 |-> a.blocks_gt50,
     pop_all  |-> a.pop_all,
     pop_gt50 |-> a.pop_gt50,
     pop_wtd  |-> a.pop_wtd,
     hu_all   |-> a.hu_all,
     hu_gt50  |-> a.hu_gt50,
     hu_wtd   |-> a.hu_wtd,
     area_sq_mi |-> sq_mi]

\* Mutant of WithIssues: the two keys are added whether or not the lists are
\* empty.
WithIssues_Always(summary, errors, warnings) ==
    summary @@ [ERRORS |-> errors] @@ [WARNINGS |-> warnings]

\* Lines 209-214: ERRORS and WARNINGS are added when the lists are not empty.
WithIssues(summary, errors, warnings) ==
    summary
      @@ (IF errors # << >> THEN [ERRORS |-> errors] ELSE << >>)
      @@ (IF warnings # << >> THEN [WARNINGS |-> warnings] ELSE << >>)

Recognized(m) == m \in {"all", "gt50", "wtd"}

\* Mutant of ApplyMethod: the values are written without rounding.
ApplyMethod_Unrounded(area, m, a) ==
    IF m = "all"
    THEN [area EXCEPT !.population = a.pop_all, !.housing = a.hu_all,
                      !.method = "all"]
    ELSE IF m = "gt50"
    THEN [area EXCEPT !.population = a.pop_gt50, !.housing = a.hu_gt50,
                      !.method = "greater than 50%"]
    ELSE IF m = "wtd"
    THEN [area EXCEPT !.population = a.pop_wtd, !.housing = a.hu_wtd,
                      !.method = "weighted"]
    ELSE area

\* Lines 217-230: the fields the selected method writes into the area row.
ApplyMethod(area, m, a) ==
    IF m = "all"
    THEN [area EXCEPT !.population = round_significant(a.pop_all, DefaultP).value,
                      !.housing = round_significant(a.hu_all, DefaultP).value,
                      !.method = "all"]
    ELSE IF m = "gt50"
    THEN [area EXCEPT !.population = round_significant(a.pop_gt50, DefaultP).value,
                      !.housing = round_significant(a.hu_gt50, DefaultP).value,
                      !.method = "greater than 50%"]
    ELSE IF m = "wtd"
    THEN [area EXCEPT !.population = round_significant(a.pop_wtd, DefaultP).value,
                      !.housing = round_significant(a.hu_wtd, DefaultP).value,
                      !.method = "weighted"]
    ELSE area

\* Mutant of MethodAfter: an unrecognized method is kept as passed.
MethodAfter_Keeps(m) == m

\* Line 230: an unrecognized method becomes None.
MethodAfter(m) == IF Recognized(m) THEN m ELSE NoValue

\* Line 233: area.area_sq_mi = area_sq_mi, when a method was applied.
SetAreaSqMi(area, m, sq_mi) ==
    IF m # NoValue THEN [area EXCEPT !.area_sq_mi = sq_mi] ELSE area

\* area.to_dict() after area.drop('SHAPE'): the attributes sent to the sink.
Attributes(area) ==
    [objectid |-> area.objectid, population |-> area.population,
     housing |-> area.housing, area_sq_mi |-> area.area_sq_mi,
     method |-> area.method]

\* Lines 197-237: the loop body after the last block: the summary is stored,
\* the method applied and the area sent to the sink, which reports whether the
\* write succeeded.
FinishArea ==
    /\ pc = "blocks"
    /\ j > Len(census_blocks)
    /\ LET n == Len(areas)
           objectid == areas[n].objectid
           summary == WithIssues(Summary(census_blocks, acc, area_sq_mi),
                                 processing_errors, processing_warnings)
           m == MethodAfter(method)
           area == SetAreaSqMi(ApplyMethod(areas[n], method, acc), m, area_sq_mi)
       IN  /\ processing_issues' =
                 (processing_issues \/ processing_errors # << >>
                                    \/ processing_warnings # << >>)
           /\ method' = m
           /\ areas' = [areas EXCEPT ![n] = area]
           /\ IF m # NoValue
              THEN \E success \in BOOLEAN :
                     /\ sink' = Append(sink, Attributes(area))
                     /\ areas_summary' =
                          areas_summary @@
                            (objectid :> (summary @@
                               [update_results |->
                                  << [objectId |-> objectid,
                                      success |-> success] >>]))
              ELSE /\ areas_summary' = areas_summary @@ (objectid :> summary)
                   /\ UNCHANGED sink
    /\ pc' = "areas"
    /\ UNCHANGED << area_poly, census_blocks, j, acc, area_sq_mi,
                    processing_errors, processing_warnings, warned, printed,
                    exception, call, result,
                    gis, dro >>

\* Lines 197-237 when areas_layer.edit_features raises (the service cannot be
\* reached, or it refuses the request): the summary of the area is already
\* stored, without update_results, and the exception leaves the function.
SinkRaises ==
    /\ pc = "blocks"
    /\ j > Len(census_blocks)
    /\ Recognized(method)
    /\ LET n == Len(areas)
           objectid == areas[n].objectid
           summary == WithIssues(Summary(census_blocks, acc, area_sq_mi),
                                 processing_errors, processing_warnings)
           area == SetAreaSqMi(ApplyMethod(areas[n], method, acc), method,
                               area_sq_mi)
       IN  /\ processing_issues' =
                 (processing_issues \/ processing_errors # << >>
                                    \/ processing_warnings # << >>)
           /\ areas' = [areas EXCEPT ![n] = area]
           /\ sink' = Append(sink, Attributes(area))
           /\ areas_summary' = areas_summary @@ (objectid :> summary)
    /\ Raise("SinkError")
    /\ UNCHANGED << method, area_poly, census_blocks, j, acc, area_sq_mi,
                    processing_errors, processing_warnings, warned, printed,
                    call, result,
                    gis, dro >>

\* Lines 239-243: the loop is over; the issues line is printed and the
\* summaries are returned.
Return ==
    /\ pc = "areas"
    /\ pc' = "returned"
    /\ printed' = processing_issues
    /\ UNCHANGED << method, areas, area_poly, census_blocks, j, acc,
                    area_sq_mi, processing_errors, processing_warnings,
                    processing_issues, areas_summary, sink, warned, exception,
                    call, result,
                    gis, dro >>

\* ------------------------------------------------ the helpers on their own

\* The values and the precisions round_significant is called with.
Values == (-3)..MaxX
Precisions == 0..MaxP

\* round_significant is about to be called with x and p.
RoundInit ==
    /\ pc = "round_significant"
    /\ NothingRead
    /\ NoPortal
    /\ call \in [x : Values, p : Precisions]
    /\ result = NoResult

\* extras.round_significant(x, p) runs: it returns or it raises.
RoundSignificant ==
    /\ pc = "round_significant"
    /\ LET r == round_significant(call.x, call.p)
       IN  IF r.raised # NoValue
           THEN /\ Raise(r.raised)
                /\ UNCHANGED result
           ELSE /\ result' = Returned(r.value)
                /\ pc' = "returned"
                /\ UNCHANGED exception
    /\ UNCHANGED << method, areas, area_poly, census_blocks, j, acc,
                    area_sq_mi, processing_errors, processing_warnings,
                    processing_issues, areas_summary, sink, warned, printed,
                    call,
                    gis, dro >>

\* The rings the polygons given to as_shapely2 are made of: clockwise rings
\* that overlap, nest, lie apart or cross themselves, counter-clockwise rings
\* inside one or two of them, and a ring of too few points.
RingPool ==
    { Ring(FALSE, {1, 2, 4, 5}, FALSE, TRUE),
      Ring(FALSE, {2, 3, 5, 6}, FALSE, TRUE),
      Ring(FALSE, {3, 6}, FALSE, TRUE),
      Ring(FALSE, {1, 2}, TRUE, TRUE),
      Ring(TRUE, {5}, FALSE, TRUE),
      Ring(TRUE, {3}, FALSE, TRUE),
      Ring(FALSE, {1}, FALSE, FALSE) }

\* self.rings: distinct rings of the pool, at most n of them.
RingLists(n) ==
    UNION { { rs \in [1..k -> RingPool] :
                \A a, b \in 1..k : a # b => rs[a] # rs[b] } : k \in 0..n }

\* as_shapely2 is about to be called on a polygon, with its two flags.
ShapeInit ==
    /\ pc = "as_shapely2"
    /\ NothingRead
    /\ NoPortal
    /\ call \in [rings : RingLists(MaxRings),
                 fix_self_intersections : BOOLEAN,
                 warn_invalid : BOOLEAN]
    /\ result = NoResult

\* geometry.as_shapely2 runs: it raises (LinearRing refuses a ring), or it
\* issues its warning and returns.
AsShapely2 ==
    /\ pc = "as_shapely2"
    /\ LET r == as_shapely2(call.rings, call.fix_self_intersections,
                            call.warn_invalid)
       IN  IF r.raised
           THEN /\ Raise("ValueError")
                /\ UNCHANGED << result, warned >>
           ELSE /\ warned' = Warn(r.warning)
                /\ result' = Returned(r)
                /\ pc' = "returned"
                /\ UNCHANGED exception
    /\ UNCHANGED << method, areas, area_poly, census_blocks, j, acc,
                    area_sq_mi, processing_errors, processing_warnings,
                    processing_issues, areas_summary, sink, printed, call,
                    gis, dro >>

\* ----------------------------------------------------------- initialize_dro

\* The DRO identifiers, the account passwords ("" is a password never set) and
\* the folders the user has before the call.
DroIds == {"DR 123-45", "DR 678-90"}
Passwords == {"", "none", "secret"}
FolderTitles == {"DR 123-45", "Training"}
FolderLists ==
    {<< >>}
        \cup { << Folder(t, 1) >> : t \in FolderTitles }
        \cup { << Folder(a, 1), Folder(b, 2) >> :
                 << a, b >> \in { t \in FolderTitles \X FolderTitles :
                                    t[1] # t[2] } }

\* initialize_dro is about to be called with a DRO identifier and a gis.
DroInit ==
    /\ pc = "initialize_dro"
    /\ NothingRead
    /\ gis \in [password : Passwords, folders : FolderLists, log : {<< >>}]
    /\ \E dro_id \in DroIds : call = [dro_id |-> dro_id, gis |-> gis]
    /\ dro = NoDro
    /\ result = NoResult

\* A request made to the portal or to the browser, and whether it succeeded.
Request(op, item, ok) == [op |-> op, item |-> item, ok |-> ok]
Requested(requests) == [gis EXCEPT !.log = gis.log \o requests]

\* Line 224: the password was never set.
MissingPassword(password) == password \in {"", "none"}

\* Mutant of NeedsFolder: the folder is created whatever the user has.
NeedsFolder_Always(folders, dro_id) == TRUE

\* Line 233: no folder of the user is titled as the DRO.
NeedsFolder(folders, dro_id) ==
    \A i \in 1..Len(folders) : folders[i].title # dro_id

\* Line 239: the first folder titled as the DRO.
ExistingFolder(folders, dro_id) ==
    LET first == CHOOSE i \in 1..Len(folders) :
                     /\ folders[i].title = dro_id
                     /\ \A k \in 1..(i - 1) : folders[k].title # dro_id
    IN  folders[first]

\* spinner.text = text
Spin(text) == [dro EXCEPT !.spinner = Spinner("spinning", text)]

\* The step is over and the next one follows.
Continue(text, next) ==
    /\ dro' = Spin(text)
    /\ pc' = next
    /\ UNCHANGED exception

\* spinner.fail(message); return
Fail(message) ==
    /\ dro' = [dro EXCEPT !.spinner = Spinner("failed", message)]
    /\ pc' = "aborted"
    /\ UNCHANGED exception

\* What initialize_dro never touches.
DroFrame ==
    UNCHANGED << method, areas, area_poly, census_blocks, j, acc, area_sq_mi,
                 processing_errors, processing_warnings, processing_issues,
                 areas_summary, sink, warned, printed, call, result >>

\* Lines 224-225: the password check.
CheckPassword ==
    /\ pc = "initialize_dro"
    /\ IF MissingPassword(gis.password)
       THEN Raise("RuntimeError")
       ELSE /\ pc' = "folder"
            /\ UNCHANGED exception
    /\ UNCHANGED << gis, dro >>
    /\ DroFrame

\* Lines 230-239: the DRO folder is created, or the existing one is taken.
CreateFolder ==
    /\ pc = "folder"
    /\ IF NeedsFolder(gis.folders, call.dro_id)
       THEN \E created \in BOOLEAN :
              LET dro_folder == Folder(call.dro_id, Len(gis.folders) + 1)
              IN  /\ gis' = [gis EXCEPT
                               !.log = Append(@, Request("create_folder",
                                                         "folder", created)),
                               !.folders = IF created
                                           THEN Append(@, dro_folder)
                                           ELSE @]
                  /\ IF created
                     THEN /\ dro' = [dro_folder |-> dro_folder,
                                     spinner |-> Spinner("spinning",
                                                         "Creating folder")]
                          /\ pc' = "features"
                          /\ UNCHANGED exception
                     ELSE Fail("Failed to create DRO folder. Initialization aborted.")
       ELSE /\ dro' = [dro_folder |-> ExistingFolder(gis.folders, call.dro_id),
                       spinner |-> Spinner("spinning", "Creating folder")]
            /\ pc' = "features"
            /\ UNCHANGED << gis, exception >>
    /\ DroFrame

\* Lines 242-249: the features template is copied and moved to the folder.
\* The copy is not checked: without one, .move raises AttributeError.
CopyFeaturesTemplate ==
    /\ pc = "features"
    /\ \E outcome \in {"no_copy", "not_moved", "moved"} :
         /\ gis' = Requested(
                IF outcome = "no_copy"
                THEN << Request("copy", "features", FALSE) >>
                ELSE << Request("copy", "features", TRUE),
                        Request("move", "features", outcome = "moved") >>)
         /\ CASE outcome = "no_copy" ->
                   /\ dro' = Spin("Copying features template")
                   /\ Raise("AttributeError")
              [] outcome = "not_moved" ->
                   Fail("Failed to move features template to DRO folder. Initialization aborted.")
              [] outcome = "moved" ->
                   Continue("Copying features template", "publish")
    /\ DroFrame

\* Lines 252-257: the feature service is published and tagged; the result of
\* the tagging is dropped.
PublishFeatureService ==
    /\ pc = "publish"
    /\ \E published, tagged \in BOOLEAN :
         IF ~published
         THEN /\ gis' = Requested(
                     << Request("publish", "feature_service", FALSE) >>)
              /\ Fail("Failed to publish DRO feature service. Initialization aborted.")
         ELSE /\ gis' = Requested(
                     << Request("publish", "feature_service", TRUE),
                        Request("tag", "feature_service", tagged) >>)
              /\ Continue("Publishing feature service", "sit_map")
    /\ DroFrame

\* Lines 262-272: the situational awareness map is copied, moved and tagged.
CreateSituationalAwarenessMap ==
    /\ pc = "sit_map"
    /\ \E outcome \in {"no_copy", "not_moved", "moved"}, tagged \in BOOLEAN :
         CASE outcome = "no_copy" ->
                /\ gis' = Requested(<< Request("copy", "sit_map", FALSE) >>)
                /\ Fail("Failed to copy situational awareness map. Initialization aborted.")
           [] outcome = "not_moved" ->
                /\ gis' = Requested(<< Request("copy", "sit_map", TRUE),
                                       Request("move", "sit_map", FALSE) >>)
                /\ Fail("Failed to move situational awareness map to DRO folder. Initialization aborted.")
           [] outcome = "moved" ->
                /\ gis' = Requested(<< Request("copy", "sit_map", TRUE),
                                       Request("move", "sit_map", TRUE),
                                       Request("tag", "sit_map", tagged) >>)
                /\ Continue("Creating situational awareness map", "sit_app")
    /\ DroFrame

\* Lines 286-347: the situational awareness app is created in the browser
\* (three waits, each of which may time out), then updated and tagged.
CreateSituationalAwarenessApp ==
    /\ pc = "sit_app"
    /\ \E outcome \in {"no_panel", "no_sign_in", "no_launch", "not_updated",
                       "updated"}, tagged \in BOOLEAN :
         CASE outcome = "no_panel" ->
                /\ gis' = Requested(
                       << Request("wait", "enterprisePanel", FALSE) >>)
                /\ Fail("Failed to log into RC View. Initialization aborted.")
           [] outcome = "no_sign_in" ->
                /\ gis' = Requested(
                       << Request("wait", "enterprisePanel", TRUE),
                          Request("wait", "sign_in", FALSE) >>)
                /\ Fail("Failed to log into RC View. Initialization aborted.")
           [] outcome = "no_launch" ->
                /\ gis' = Requested(
                       << Request("wait", "enterprisePanel", TRUE),
                          Request("wait", "sign_in", TRUE),
                          Request("wait", "Launch", FALSE) >>)
                /\ Fail("Failed to create situational awareness app. Initialization aborted.")
           [] outcome = "not_updated" ->
                /\ gis' = Requested(
                       << Request("wait", "enterprisePanel", TRUE),
                          Request("wait", "sign_in", TRUE),
                          Request("wait", "Launch", TRUE),
                          Request("update", "sit_app", FALSE) >>)
                /\ Fail("Failed to update situational awareness app. Initialization aborted.")
           [] outcome = "updated" ->
                /\ gis' = Requested(
                       << Request("wait", "enterprisePanel", TRUE),
                          Request("wait", "sign_in", TRUE),
                          Request("wait", "Launch", TRUE),
                          Request("update", "sit_app", TRUE),
                          Request("tag", "sit_app", tagged) >>)
                /\ Continue("Creating situational awareness app",
                            "ops_dashboard")
    /\ DroFrame

\* Lines 350-369: the operations dashboard is copied (unchecked), moved,
\* updated and tagged.
CreateOperationsDashboard ==
    /\ pc = "ops_dashboard"
    /\ \E outcome \in {"no_copy", "not_moved", "not_updated", "updated"},
          tagged \in BOOLEAN :
         CASE outcome = "no_copy" ->
                /\ gis' = Requested(
                       << Request("copy", "ops_dashboard", FALSE) >>)
                /\ dro' = Spin("Creating operations dashboard")
                /\ Raise("AttributeError")
           [] outcome = "not_moved" ->
                /\ gis' = Requested(
                       << Request("copy", "ops_dashboard", TRUE),
                          Request("move", "ops_dashboard", FALSE) >>)
                /\ Fail("Failed to move operations dashboard to DRO folder. Initialization aborted.")
           [] outcome = "not_updated" ->
                /\ gis' = Requested(
                       << Request("copy", "ops_dashboard", TRUE),
                          Request("move", "ops_dashboard", TRUE),
                          Request("update", "ops_dashboard", FALSE) >>)
                /\ Fail("Failed to update operations dashboard. Initialization aborted.")
           [] outcome = "updated" ->
                /\ gis' = Requested(
                       << Request("copy", "ops_dashboard", TRUE),
                          Request("move", "ops_dashboard", TRUE),
                          Request("update", "ops_dashboard", TRUE),
                          Request("tag", "ops_dashboard", tagged) >>)
                /\ Continue("Creating operations dashboard",
                            "directors_brief")
    /\ DroFrame

\* Lines 372-392: the director's brief is copied (unchecked), moved, updated
\* and tagged, and the spinner reports the end.
CreateDirectorsBrief ==
    /\ pc = "directors_brief"
    /\ \E outcome \in {"no_copy", "not_moved", "not_updated", "updated"},
          tagged \in BOOLEAN :
         CASE outcome = "no_copy" ->
                /\ gis' = Requested(
                       << Request("copy", "directors_brief", FALSE) >>)
                /\ Raise("AttributeError")
                /\ UNCHANGED dro
           [] outcome = "not_moved" ->
                /\ gis' = Requested(
                       << Request("copy", "directors_brief", TRUE),
                          Request("move", "directors_brief", FALSE) >>)
                /\ Fail("Failed to move director's brief to DRO folder. Initialization aborted.")
           [] outcome = "not_updated" ->
                /\ gis' = Requested(
                       << Request("copy", "directors_brief", TRUE),
                          Request("move", "directors_brief", TRUE),
                          Request("update", "directors_brief", FALSE) >>)
                /\ Fail("Failed to update director's brief. Initialization aborted.")
           [] outcome = "updated" ->
                /\ gis' = Requested(
                       << Request("copy", "directors_brief", TRUE),
                          Request("move", "directors_brief", TRUE),
                          Request("update", "directors_brief", TRUE),
                          Request("tag", "directors_brief", tagged) >>)
                /\ dro' = [dro EXCEPT !.spinner =
                              Spinner("succeeded", "Finished initializing DRO.")]
                /\ pc' = "finished"
                /\ UNCHANGED exception
    /\ DroFrame

\* ---------------------------------------------------------- specifications

\* One area with up to MaxBlocks candidate blocks of the census layer.
Next ==
    \/ Call
    \/ BeginArea(1, AreaShapes, CensusLayer, MaxBlocks)
    \/ QueryFails(1, AreaShapes)
    \/ BlockStep
    \/ IntersectionRaises
    \/ FinishArea
    \/ SinkRaises
    \/ Return

Spec == Init /\ [][Next]_vars

\* The blocks of the census layer the batch specification draws from.
BatchLayer == { b \in CensusLayer : b.GEOID \in {2, 7, 9} }

\* The area shapes the batch specification draws from.
BatchShapes == {"sq", "bowtie", "nested", "bad"}

\* Up to MaxAreas areas, each with at most one candidate block.
BatchNext ==
    \/ Call
    \/ BeginArea(MaxAreas, BatchShapes, BatchLayer, 1)
    \/ QueryFails(MaxAreas, BatchShapes)
    \/ BlockStep
    \/ IntersectionRaises
    \/ FinishArea
    \/ SinkRaises
    \/ Return

BatchSpec == Init /\ [][BatchNext]_vars

\* round_significant called once with every value and precision.
RoundNext == RoundSignificant

RoundSpec == RoundInit /\ [][RoundNext]_vars

\* as_shapely2 called once on every polygon of up to MaxRings rings.
ShapeNext == AsShapely2

ShapeSpec == ShapeInit /\ [][ShapeNext]_vars

\* initialize_dro on its own.
DroNext ==
    \/ CheckPassword
    \/ CreateFolder
    \/ CopyFeaturesTemplate
    \/ PublishFeatureService
    \/ CreateSituationalAwarenessMap
    \/ CreateSituationalAwarenessApp
    \/ CreateOperationsDashboard
    \/ CreateDirectorsBrief

DroSpec == DroInit /\ [][DroNext]_vars

\* ------------------------------------------------------------ properties

\* The identifiers the recorded errors and block warnings name.
ErrorIds == { processing_errors[k][2] : k \in 1..Len(processing_errors) }
WarningIds ==
    { processing_warnings[k][2] :
        k \in { i \in 1..Len(processing_warnings) :
                  Len(processing_warnings[i]) = 3 } }

\* Candidate k was passed by the loop and neither warned about nor in error.
Aggregated(k) ==
    /\ k < j
    /\ census_blocks[k].GEOID \notin ErrorIds
    /\ census_blocks[k].GEOID \notin WarningIds

\* The polygon of candidate k, its area and the area of its intersection with
\* the current area polygon.
PolyOf(k) == BlockPoly(census_blocks[k]).poly
BlockArea(k) == PolyArea(PolyOf(k))
InterArea(k) == Cardinality(Region(PolyOf(k)) \cap Region(area_poly))

\* The step taken adds candidate j to the accumulators.
AggregatesBlock ==
    /\ pc = "blocks"
    /\ pc' = "blocks"
    /\ j' = j + 1
    /\ processing_warnings' = processing_warnings
    /\ processing_errors' = processing_errors

\* The current area has its summary.
CurDone == Len(areas) >= 1 /\ Len(areas) \in DOMAIN areas_summary
CurSummary == areas_summary[Len(areas)]

\* C1: a block adds its population to pop_gt50, its housing units to hu_gt50
\* and 1 to blocks_gt50 exactly when intersection area / block area is
\* strictly greater than 0.5; at exactly 0.5 (and below) it adds nothing to
\* the three.
C1_Gt50Strict ==
    [][ AggregatesBlock =>
          LET b == census_blocks[j]
              over == 2 * InterArea(j) > BlockArea(j)
          IN  /\ acc'.pop_gt50 = acc.pop_gt50 + (IF over THEN b.POP100 ELSE 0)
              /\ acc'.hu_gt50 = acc.hu_gt50 + (IF over THEN b.HU100 ELSE 0)
              /\ acc'.blocks_gt50 = acc.blocks_gt50 + (IF over THEN 1 ELSE 0)
      ]_vars

\* A block covered exactly by half, then one covered by three quarters, have
\* been aggregated: only the second is in the gt50 aggregates.
C1_Witness ==
    /\ pc = "blocks"
    /\ j = 3
    /\ Aggregated(1) /\ Aggregated(2)
    /\ 2 * InterArea(1) = BlockArea(1)
    /\ 2 * InterArea(2) > BlockArea(2)
    /\ census_blocks[1].POP100 > 0
    /\ acc.pop_gt50 = census_blocks[2].POP100
    /\ acc.hu_gt50 = census_blocks[2].HU100
    /\ acc.blocks_gt50 = 1

\* The sum over the aggregated candidates of each block's value times its
\* proportion, each rounded to an integer on its own.
SumOfRounded(field) ==
    SumSeq([k \in 1..(j - 1) |->
              IF Aggregated(k)
              THEN RoundHalfEven(census_blocks[k][field] * InterArea(k),
                                 BlockArea(k))
              ELSE 0])

\* C2: pop_wtd and hu_wtd are the sums, over the blocks not skipped, of
\* round(block value * proportion), each block rounded on its own before it
\* is added; the summary reports these sums.
C2_WeightedRoundsPerBlock ==
    /\ pc = "blocks" =>
          /\ acc.pop_wtd = SumOfRounded("POP100")
          /\ acc.hu_wtd = SumOfRounded("HU100")
    /\ (CurDone /\ pc # "raised") =>
          /\ CurSummary.pop_wtd = SumOfRounded("POP100")
          /\ CurSummary.hu_wtd = SumOfRounded("HU100")

\* round(sum of value * proportion) for the first two candidates.
RoundOfSum2(field) ==
    RoundHalfEven(census_blocks[1][field] * InterArea(1) * BlockArea(2)
                      + census_blocks[2][field] * InterArea(2) * BlockArea(1),
                  BlockArea(1) * BlockArea(2))

\* Two blocks have been aggregated and the sum of the rounded terms differs
\* from the rounded sum.
C2_Witness ==
    /\ CurDone
    /\ pc = "areas"
    /\ j = 3
    /\ Aggregated(1) /\ Aggregated(2)
    /\ CurSummary.pop_wtd = SumOfRounded("POP100")
    /\ CurSummary.pop_wtd # RoundOfSum2("POP100")

\* C3: a valid block entirely outside the area (proportion 0) adds nothing to
\* any population or housing aggregate, pop_all and hu_all included, and is
\* not counted in blocks_gt50.
C3_OutsideBlockAddsNothing ==
    [][ (AggregatesBlock /\ InterArea(j) = 0) => acc' = acc ]_vars

\* The candidates the loop neither warned about nor put in error.
NotSkipped == { k \in 1..Len(census_blocks) : Aggregated(k) }

\* C4 as stated: no_blocks_all is the number of candidates not skipped.
C4_BlocksAllExcludesSkipped ==
    (CurDone /\ pc # "raised") =>
        CurSummary.no_blocks_all = Cardinality(NotSkipped)

\* C4 amended: no_blocks_all is the number of candidate blocks the census
\* query returned for the area: the aggregated blocks and the skipped ones,
\* whether skipped as invalid or for an intersection error.
C4_BlocksAllCountsCandidates ==
    (CurDone /\ pc # "raised") =>
        /\ CurSummary.no_blocks_all = Len(census_blocks)
        /\ CurSummary.no_blocks_all =
              Cardinality(NotSkipped) + Cardinality(ErrorIds)
                  + Cardinality(WarningIds)

\* A summary of two candidates, one aggregated and one skipped as invalid.
C4_Witness ==
    /\ CurDone
    /\ pc = "areas"
    /\ Len(census_blocks) = 2
    /\ Cardinality(NotSkipped) = 1
    /\ Cardinality(WarningIds) = 1
    /\ CurSummary.no_blocks_all = 2

\* Candidate j converts to a polygon that is not valid.
NextBlockInvalid ==
    /\ pc = "blocks"
    /\ j <= Len(census_blocks)
    /\ ~BlockPoly(census_blocks[j]).raised
    /\ explain_validity(PolyOf(j)) # "Valid Geometry"

\* C5: a block whose normalized polygon is invalid is skipped without the
\* intersection being attempted: one warning naming its identifier and the
\* validity reason is added, no error is recorded and none of the seven
\* accumulators changes; the warnings are reported under WARNINGS.
C5_InvalidBlockSkipped ==
    /\ [][ NextBlockInvalid =>
             /\ acc' = acc
             /\ processing_errors' = processing_errors
             /\ processing_warnings' =
                   Append(processing_warnings,
                          << "Unable to convert census block to valid polygon",
                             census_blocks[j].GEOID,
                             explain_validity(PolyOf(j)) >>)
             /\ j' = j + 1
         ]_vars
    /\ [] ( (CurDone /\ pc # "raised" /\ processing_warnings # << >>) =>
              /\ "WARNINGS" \in DOMAIN CurSummary
              /\ CurSummary.WARNINGS = processing_warnings )

\* An invalid block (nested shells) was passed after an aggregated one: the
\* accumulators hold the first block only and the warning names the second.
C5_Witness ==
    /\ pc = "blocks"
    /\ j = 3
    /\ Aggregated(1)
    /\ explain_validity(PolyOf(2)) = "Nested shells"
    /\ census_blocks[2].POP100 > 0
    /\ acc.pop_all = census_blocks[1].POP100
    /\ acc.hu_all = census_blocks[1].HU100
    /\ processing_errors = << >>
    /\ processing_warnings =
          << << "Unable to convert census block to valid polygon",
                census_blocks[2].GEOID, "Nested shells" >> >>

\* Candidate j's rings build a polygon that intersects itself.
NextBlockSelfIntersecting ==
    /\ pc = "blocks"
    /\ j <= Len(census_blocks)
    /\ \A i \in 1..Len(Rings(census_blocks[j].SHAPE)) :
          Rings(census_blocks[j].SHAPE)[i].ok
    /\ explain_validity(BuildPolys(ExteriorRings(Rings(census_blocks[j].SHAPE)),
                                   InteriorRings(Rings(census_blocks[j].SHAPE))))
          = "Self-intersection"

\* C6 as stated: a self-intersecting block is not repaired: the warning issued
\* mentions no fix and the block is skipped from aggregation with an entry in
\* WARNINGS.
C6_SelfIntersectingBlockSkipped ==
    [][ NextBlockSelfIntersecting =>
          /\ acc' = acc
          /\ warned' = Append(warned,
                              << "Polygon is not valid", "Self-intersection", "" >>)
          /\ processing_warnings' =
                Append(processing_warnings,
                       << "Unable to convert census block to valid polygon",
                          census_blocks[j].GEOID, "Self-intersection" >>)
      ]_vars

\* C6 amended: block polygons are normalized with repair enabled, as area
\* polygons are: a self-intersecting block is fixed, the warning issued says
\* so, nothing is added to WARNINGS and the block is aggregated (unless its
\* intersection raises, which records an error).
C6_SelfIntersectingBlockRepaired ==
    [][ NextBlockSelfIntersecting =>
          /\ warned' = Append(warned,
                              << "Polygon is not valid", "Self-intersection",
                                 "self-intersections were automatically fixed" >>)
          /\ processing_warnings' = processing_warnings
          /\ j' = j + 1
          /\ \/ /\ processing_errors' = processing_errors
                /\ acc'.pop_all = acc.pop_all + census_blocks[j].POP100
                /\ acc'.hu_all = acc.hu_all + census_blocks[j].HU100
             \/ /\ processing_errors' =
                      Append(processing_errors,
                             << "Unable to intersect census block",
                                census_blocks[j].GEOID >>)
                /\ acc' = acc
      ]_vars

\* A self-intersecting block was the first candidate: it is in pop_all, no
\* warning about it is in WARNINGS and the fix was announced.
C6_Witness ==
    /\ pc = "blocks"
    /\ j = 2
    /\ Rings(census_blocks[1].SHAPE)[1].selfx
    /\ Aggregated(1)
    /\ acc.pop_all = census_blocks[1].POP100
    /\ acc.pop_all > 0
    /\ \E k \in 1..Len(warned) :
          warned[k][3] = "self-intersections were automatically fixed"

\* The accumulators the loop leaves for a candidate list none of whose
\* intersections raises.
RECURSIVE LoopAggregates(_, _)
LoopAggregates(blocks, apoly) ==
    IF blocks = << >> THEN ZeroAcc
    ELSE LET n == Len(blocks)
             before == LoopAggregates(SubSeq(blocks, 1, n - 1), apoly)
             conv == BlockPoly(blocks[n])
         IN  IF ~is_valid(conv.poly) THEN before
             ELSE Accumulate(before, blocks[n], IntProp(conv.poly, apoly))

\* The seven aggregates of a summary.
AggregatesOf(summary) ==
    [pop_all |-> summary.pop_all, pop_gt50 |-> summary.pop_gt50,
     blocks_gt50 |-> summary.no_blocks_gt50, pop_wtd |-> summary.pop_wtd,
     hu_all |-> summary.hu_all, hu_gt50 |-> summary.hu_gt50,
     hu_wtd |-> summary.hu_wtd]

\* C7: when the intersection of a block raises, an error naming the block is
\* recorded, the loop goes on with the next block, and the aggregates of the
\* summary (the three population sums, the three housing sums and
\* no_blocks_gt50) are those of the candidate list without the blocks in
\* error; the errors are reported under ERRORS.
C7_IntersectionErrorExcludesBlock ==
    /\ [][ (pc = "blocks" /\ processing_errors' # processing_errors) =>
             /\ processing_errors' =
                   Append(processing_errors,
                          << "Unable to intersect census block",
                             census_blocks[j].GEOID >>)
             /\ acc' = acc
             /\ j' = j + 1
             /\ pc' = "blocks"
         ]_vars
    /\ [] ( (CurDone /\ pc # "raised") =>
              /\ AggregatesOf(CurSummary) =
                    LoopAggregates(
                        SelectSeq(census_blocks,
                                  LAMBDA b : b.GEOID \notin ErrorIds),
                        area_poly)
              /\ processing_errors # << >> =>
                    /\ "ERRORS" \in DOMAIN CurSummary
                    /\ CurSummary.ERRORS = processing_errors )

\* The intersection of the first of two candidates raised: the summary holds
\* the second block alone and ERRORS names the first.
C7_Witness ==
    /\ CurDone
    /\ pc = "areas"
    /\ Len(census_blocks) = 2
    /\ "ERRORS" \in DOMAIN CurSummary
    /\ CurSummary.ERRORS =
          << << "Unable to intersect census block", census_blocks[1].GEOID >> >>
    /\ census_blocks[1].POP100 > 0
    /\ Aggregated(2)
    /\ CurSummary.pop_all = census_blocks[2].POP100
    /\ CurSummary.pop_all > 0

\* C8: with a recognized method every summarised area carries the method's
\* label, the method's population and housing sums rounded to 2 significant
\* digits and the computed area_sq_mi, while the summary keeps the unrounded
\* sums of the three policies.
C8_PolicyApplication ==
    /\ \A n \in DOMAIN areas_summary :
          LET s == areas_summary[n]
              a == areas[n]
          IN  /\ method = "all" =>
                    /\ a.population = round_significant(s.pop_all, 2).value
                    /\ a.housing = round_significant(s.hu_all, 2).value
                    /\ a.method = "all"
              /\ method = "gt50" =>
                    /\ a.population = round_significant(s.pop_gt50, 2).value
                    /\ a.housing = round_significant(s.hu_gt50, 2).value
                    /\ a.method = "greater than 50%"
              /\ method = "wtd" =>
                    /\ a.population = round_significant(s.pop_wtd, 2).value
                    /\ a.housing = round_significant(s.hu_wtd, 2).value
                    /\ a.method = "weighted"
              /\ Recognized(method) => a.area_sq_mi = s.area_sq_mi
    /\ (CurDone /\ pc # "raised") =>
          /\ AggregatesOf(CurSummary) = acc
          /\ CurSummary.area_sq_mi = area_sq_mi

\* Method 'all' on the 2000 m square with blocks of 122 and 3 people: the
\* summary keeps 125 and the area is given 120, with 1.54 square miles.
C8_Witness ==
    /\ CurDone
    /\ method = "all"
    /\ CurSummary.pop_all = 125
    /\ areas[Len(areas)].population = 120
    /\ areas[Len(areas)].method = "all"
    /\ areas[Len(areas)].area_sq_mi = 154
    /\ CurSummary.area_sq_mi = 154

\* C9: with an unrecognized method (or 'none') no area field is changed, no
\* update is sent to the sink and no summary holds update_results; the
\* summaries are still computed and returned.
C9_UnrecognizedMethodNoUpdate ==
    (pc # "start" /\ ~Recognized(method)) =>
        /\ sink = << >>
        /\ \A n \in 1..Len(areas) :
              /\ areas[n].population = NoValue
              /\ areas[n].housing = NoValue
              /\ areas[n].method = NoValue
              /\ areas[n].area_sq_mi = NoValue
        /\ \A n \in DOMAIN areas_summary :
              "update_results" \notin DOMAIN areas_summary[n]
        /\ pc = "returned" => DOMAIN areas_summary = 1..Len(areas)

\* A run with an unrecognized method returned the summaries of two areas, the
\* second with a block in it, and sent nothing.
C9_Witness ==
    /\ pc = "returned"
    /\ ~Recognized(method)
    /\ Len(areas) = 2
    /\ DOMAIN areas_summary = {1, 2}
    /\ areas_summary[2].pop_all > 0
    /\ sink = << >>

\* C10: the batch never aborts on a failure in one area, and it returns one
\* summary per area, keyed by the area identifier.
C10_BatchNeverAborts ==
    /\ pc # "raised"
    /\ pc = "returned" =>
          DOMAIN areas_summary = { areas[n].objectid : n \in 1..Len(areas) }

\* The areas whose update was sent to the sink.
SentIds == { sink[k].objectid : k \in 1..Len(sink) }

\* C11: a failure of the sink write for an area is reported in that area's
\* summary under update_results and is not thrown: the run goes on with the
\* next area and returns normally.
C11_SinkFailureReported ==
    /\ exception # "SinkError"
    /\ \A n \in SentIds :
          /\ n \in DOMAIN areas_summary
          /\ "update_results" \in DOMAIN areas_summary[n]

\* round_significant has run on the arguments of `call`.
RoundDone == pc \in {"returned", "raised"}

\* C12: round_significant(0, p) returns 0 for every precision p, and for
\* every x < 0 and every p it raises ValueError and returns no value.
C12_ZeroAndNegative ==
    RoundDone =>
        /\ call.x = 0 =>
              /\ pc = "returned"
              /\ result = Returned(0)
              /\ exception = NoValue
        /\ call.x < 0 =>
              /\ pc = "raised"
              /\ exception = "ValueError"
              /\ ~result.returned

\* A negative value with the largest precision raised ValueError.
C12_Witness ==
    /\ pc = "raised"
    /\ call.x = -2
    /\ call.p = MaxP
    /\ exception = "ValueError"
    /\ ~result.returned

\* The number of decimal digits of a positive integer.
Digits(n) == CHOOSE d \in 1..10 : Pow10(d - 1) <= n /\ n < Pow10(d)

\* The distance between adjacent values of p significant digits around n:
\* 10^(floor(log10 n) - p + 1), which is 1 when n has at most p digits.
Step(n, q) == IF Digits(n) > q THEN Pow10(Digits(n) - q) ELSE 1

Abs(n) == IF n < 0 THEN -n ELSE n

\* C13: for a positive integer x and p >= 1, round_significant(x, p) is x
\* rounded to the nearest multiple of 10^(floor(log10 x) - p + 1): a value of
\* at most p digits comes back unchanged, a longer one keeps its p leading
\* significant digits.
C13_SignificantDigits ==
    (RoundDone /\ call.x > 0 /\ call.p >= 1) =>
        /\ pc = "returned"
        /\ result.returned
        /\ result.value % Step(call.x, call.p) = 0
        /\ 2 * Abs(result.value - call.x) <= Step(call.x, call.p)
        /\ Digits(call.x) <= call.p => result.value = call.x

\* 1234 at precision 2 came back as 1200.
C13_Witness ==
    /\ pc = "returned"
    /\ call.x = 1234
    /\ call.p = 2
    /\ result = Returned(1200)

\* C14: ties are broken by round-half-to-even: when x lies exactly halfway
\* between two adjacent values of p significant digits, the result is the one
\* whose last kept digit is even.
C14_TiesToEven ==
    (RoundDone /\ call.x > 0 /\ call.p >= 1
       /\ 2 * (call.x % Step(call.x, call.p)) = Step(call.x, call.p)) =>
        /\ result.returned
        /\ 2 * Abs(result.value - call.x) = Step(call.x, call.p)
        /\ (result.value \div Step(call.x, call.p)) % 2 = 0

\* 135 at precision 2 came back as 140 (and 125 comes back as 120).
C14_Witness ==
    /\ pc = "returned"
    /\ call.x = 135
    /\ call.p = 2
    /\ result = Returned(140)
    /\ round_significant(125, 2).value = 120

\* as_shapely2 has returned; the polygons it assembled (lines 60-73) and the
\* geometry it returned.
ShapeDone == pc = "returned"
Polys == result.value.polys
PolyShp == result.value.poly

\* The places of the clockwise and of the counter-clockwise rings in the rings
\* as_shapely2 was called with, and the rank of a place among the clockwise
\* ones.
ExtIdx == { i \in 1..Len(call.rings) : ~call.rings[i].is_ccw }
IntIdx == { i \in 1..Len(call.rings) : call.rings[i].is_ccw }
Rank(i) == Cardinality({ m \in ExtIdx : m <= i })

\* The rings at places h and i enclose a common cell.
Meets(h, i) == call.rings[h].cells \cap call.rings[i].cells # {}

\* The ring at place h is among the holes of the k-th polygon assembled.
HoleOf(h, k) ==
    \E n \in 1..Len(Polys[k].holes) : Polys[k].holes[n] = call.rings[h]

\* The place in the input of the n-th hole of the k-th polygon.
PlaceOf(k, n) ==
    CHOOSE h \in 1..Len(call.rings) : call.rings[h] = Polys[k].holes[n]

\* C15: the clockwise rings are the exterior rings and the counter-clockwise
\* ones the interior rings; there is one polygon per exterior ring, in input
\* order, and a polygon holds exactly the interior rings that intersect its
\* exterior ring and intersect no exterior ring before it: a ring taken by an
\* earlier exterior ring is not offered to a later one.
C15_FirstMatchHoles ==
    ShapeDone =>
        /\ Len(Polys) = Cardinality(ExtIdx)
        /\ \A i \in ExtIdx :
              /\ Polys[Rank(i)].shell = call.rings[i]
              /\ \A h \in IntIdx :
                    HoleOf(h, Rank(i)) <=>
                        /\ Meets(h, i)
                        /\ \A m \in ExtIdx : m < i => ~Meets(h, m)
              /\ \A h \in ExtIdx : ~HoleOf(h, Rank(i))
              /\ \A a, b \in 1..Len(Polys[Rank(i)].holes) :
                    a < b => PlaceOf(Rank(i), a) < PlaceOf(Rank(i), b)

\* An interior ring that intersects two exterior rings went to the first of
\* them in input order, and the second polygon has no hole.
C15_Witness ==
    /\ ShapeDone
    /\ Len(call.rings) = 3
    /\ ExtIdx = {1, 3}
    /\ Meets(2, 1) /\ Meets(2, 3)
    /\ Polys[1].holes = << call.rings[2] >>
    /\ Polys[2].shell = call.rings[3]
    /\ Polys[2].holes = << >>

\* The polygons that hold the interior ring at place h.
Owners(h) == { k \in 1..Len(Polys) : HoleOf(h, k) }

\* C16 as stated: every interior ring of the input is a hole of exactly one
\* polygon, whose exterior ring intersects it: none is left unassigned.
C16_EveryHoleAssignedOnce ==
    ShapeDone =>
        \A h \in IntIdx :
            /\ Cardinality(Owners(h)) = 1
            /\ \A k \in Owners(h) :
                  Polys[k].shell.cells \cap call.rings[h].cells # {}

\* C16 amended: every interior ring of the input is a hole of at most one
\* polygon, whose exterior ring intersects it; it is a hole of exactly one
\* when it intersects some exterior ring, and it is left out of the result
\* when it intersects none.
C16_HoleAssignedAtMostOnce ==
    ShapeDone =>
        \A h \in IntIdx :
            /\ Cardinality(Owners(h)) <= 1
            /\ \A k \in Owners(h) :
                  Polys[k].shell.cells \cap call.rings[h].cells # {}
            /\ Cardinality(Owners(h)) = 1 <=> \E i \in ExtIdx : Meets(h, i)

\* Two interior rings and one exterior ring: the ring that intersects the
\* exterior ring is its hole, the other one is in no polygon.
C16_Witness ==
    /\ ShapeDone
    /\ Len(call.rings) = 3
    /\ ExtIdx = {2}
    /\ ~Meets(1, 2)
    /\ Meets(3, 2)
    /\ Owners(1) = {}
    /\ Owners(3) = {1}
    /\ Len(Polys) = 1

\* C17 as stated: as_shapely2 returns a single polygon when the input has
\* exactly one exterior ring, and otherwise a multi-polygon of exactly one
\* polygon per exterior ring.
C17_OnePolygonPerExteriorRing ==
    ShapeDone =>
        /\ Len(PolyShp) = Cardinality(ExtIdx)
        /\ result.value.geom_type =
              IF Cardinality(ExtIdx) = 1 THEN "Polygon" ELSE "MultiPolygon"

\* C17 amended: the geometry as_shapely2 assembles is a single polygon when
\* the input has exactly one exterior ring and otherwise a multi-polygon of
\* one polygon per exterior ring, in input order, each with its holes (an
\* empty collection when there is no exterior ring); it is the geometry
\* returned unless the self-intersection repair is applied, and then the
\* geometry returned is what the buffer rebuilds, over the same cells, in as
\* many polygons as it has connected pieces.
C17_ShapeUnlessRepaired ==
    ShapeDone =>
        /\ Len(Polys) = Cardinality(ExtIdx)
        /\ \A i \in ExtIdx : Polys[Rank(i)].shell = call.rings[i]
        /\ ~result.value.fixed =>
              /\ PolyShp = Polys
              /\ result.value.geom_type =
                    IF Cardinality(ExtIdx) = 1 THEN "Polygon"
                    ELSE "MultiPolygon"
        /\ result.value.fixed =>
              /\ Region(PolyShp) = Region(Polys)
              /\ result.value.geom_type =
                    IF Len(PolyShp) = 1 THEN "Polygon" ELSE "MultiPolygon"
              /\ \A a, b \in 1..Len(PolyShp) :
                    a # b => PolyShp[a].shell.cells \cap PolyShp[b].shell.cells = {}

\* Two exterior rings lying apart, the first with a hole: a multi-polygon of
\* two polygons came back as built.
C17_Witness ==
    /\ ShapeDone
    /\ Len(call.rings) = 3
    /\ ExtIdx = {1, 3}
    /\ ~result.value.fixed
    /\ result.value.geom_type = "MultiPolygon"
    /\ Len(PolyShp) = 2
    /\ PolyShp[1].holes = << call.rings[2] >>
    /\ PolyShp[2].shell = call.rings[3]
    /\ is_valid(PolyShp)

\* The assembled polygon calls for the repair: it is invalid by a
\* self-intersection and the repair is requested.
RepairDue ==
    /\ explain_validity(Polys) = "Self-intersection"
    /\ call.fix_self_intersections

\* C18: the zero-distance buffer is applied if and only if the assembled
\* polygon is invalid, the reason is a self-intersection and the repair is
\* requested; the polygon returned is then valid and the warning mentions
\* that self-intersections were automatically fixed. Otherwise the polygon
\* is returned as built and no fix is mentioned.
C18_RepairIffSelfIntersection ==
    ShapeDone =>
        /\ result.value.fixed <=> RepairDue
        /\ RepairDue =>
              /\ PolyShp # Polys
              /\ is_valid(PolyShp)
              /\ Region(PolyShp) = Region(Polys)
              /\ call.warn_invalid =>
                    warned = << << "Polygon is not valid", "Self-intersection",
                                  "self-intersections were automatically fixed" >> >>
        /\ ~RepairDue =>
              /\ PolyShp = Polys
              /\ \A k \in 1..Len(warned) : warned[k][3] = ""

\* A ring that crosses itself, with the repair requested: a valid polygon
\* came back and the warning says the self-intersections were fixed.
C18_Witness ==
    /\ ShapeDone
    /\ Len(call.rings) = 1
    /\ call.rings[1].selfx
    /\ call.fix_self_intersections
    /\ ~is_valid(Polys)
    /\ is_valid(PolyShp)
    /\ Len(warned) = 1
    /\ warned[1][3] = "self-intersections were automatically fixed"

\* C19: a warning carrying the validity reason is issued exactly when the
\* assembled polygon is invalid and the warn flag is set, repaired or not;
\* with the flag unset none is issued; and as_shapely2 never raises because
\* the polygon is invalid (it raises only for a ring LinearRing refuses).
C19_WarningIffInvalidAndFlag ==
    /\ ShapeDone =>
          /\ warned # << >> <=> (~is_valid(Polys) /\ call.warn_invalid)
          /\ warned # << >> =>
                /\ Len(warned) = 1
                /\ warned[1][1] = "Polygon is not valid"
                /\ warned[1][2] = explain_validity(Polys)
    /\ pc = "raised" => \E i \in 1..Len(call.rings) : ~call.rings[i].ok

\* Two overlapping exterior rings with both flags set: the polygon was
\* repaired and the warning carrying the reason was issued all the same.
C19_Witness ==
    /\ ShapeDone
    /\ Len(call.rings) = 2
    /\ ExtIdx = {1, 2}
    /\ \A i \in 1..2 : ~call.rings[i].selfx
    /\ call.warn_invalid
    /\ result.value.fixed
    /\ Len(warned) = 1
    /\ warned[1][2] = "Self-intersection"
    /\ warned[1][2] = explain_validity(Polys)

\* The rings of the current area, whether LinearRing accepts them all, and the
\* polygon they are assembled into before any repair.
AreaRings == Rings(areas[Len(areas)].SHAPE)
AreaConverted ==
    /\ Len(areas) >= 1
    /\ \A i \in 1..Len(AreaRings) : AreaRings[i].ok
AreaBuilt == BuildPolys(ExteriorRings(AreaRings), InteriorRings(AreaRings))

\* The warnings about the area among the warnings of the current area.
AreaWarnings ==
    { k \in 1..Len(processing_warnings) :
        processing_warnings[k][1] = "Unable to convert area to valid polygon" }

\* C20 as stated: when the rings of an area form an invalid polygon, repaired
\* or not, the validity warning is in the warnings of the area and in the
\* WARNINGS of its summary.
C20_InvalidAreaWarned ==
    (AreaConverted /\ ~is_valid(AreaBuilt)) =>
        /\ AreaWarnings = {1}
        /\ (CurDone /\ pc # "raised") =>
              /\ "WARNINGS" \in DOMAIN CurSummary
              /\ CurSummary.WARNINGS[1][1] =
                    "Unable to convert area to valid polygon"

\* C20 amended: when the polygon of an area is still invalid after the
\* conversion (repair enabled), a warning with the validity reason is the
\* first of the area's warnings and is reported under WARNINGS, and the
\* conversion does not raise: the candidate blocks are queried and the loop
\* runs on the polygon as built. When the invalidity was a self-intersection
\* the polygon is repaired, as_shapely2 announces the fix, and no warning
\* about the area is added to WARNINGS.
C20_InvalidAreaWarnedUnlessRepaired ==
    /\ [] ( AreaConverted =>
               /\ explain_validity(AreaBuilt) = "Self-intersection" =>
                     /\ is_valid(area_poly)
                     /\ Region(area_poly) = Region(AreaBuilt)
                     /\ AreaWarnings = {}
                     /\ \E k \in 1..Len(warned) :
                           warned[k][3] =
                               "self-intersections were automatically fixed"
               /\ explain_validity(AreaBuilt) = "Nested shells" =>
                     /\ area_poly = AreaBuilt
                     /\ AreaWarnings = {1}
                     /\ processing_warnings[1] =
                           << "Unable to convert area to valid polygon",
                              "Nested shells" >>
               /\ is_valid(AreaBuilt) => AreaWarnings = {}
               /\ (CurDone /\ pc # "raised" /\ processing_warnings # << >>) =>
                     /\ "WARNINGS" \in DOMAIN CurSummary
                     /\ CurSummary.WARNINGS = processing_warnings )
    /\ [][ (pc = "areas" /\ Len(areas') > Len(areas)
             /\ \A i \in 1..Len(Rings(areas'[Len(areas')].SHAPE)) :
                   Rings(areas'[Len(areas')].SHAPE)[i].ok) =>
              \/ pc' = "blocks" /\ j' = 1 /\ acc' = ZeroAcc
              \/ pc' = "raised" /\ exception' = "QueryError"
         ]_vars

\* An area of nested shells was summarised with method 'all': the warning
\* about the area is first under WARNINGS, a block was aggregated and the
\* update was sent to the sink.
C20_Witness ==
    /\ CurDone
    /\ pc = "areas"
    /\ explain_validity(AreaBuilt) = "Nested shells"
    /\ ~is_valid(area_poly)
    /\ CurSummary.WARNINGS[1] =
          << "Unable to convert area to valid polygon", "Nested shells" >>
    /\ Len(census_blocks) >= 1
    /\ Aggregated(1)
    /\ CurSummary.pop_all > 0
    /\ method = "all"
    /\ areas[Len(areas)].method = "all"
    /\ "update_results" \in DOMAIN CurSummary
    /\ Len(areas) \in SentIds

\* Every candidate block of the current area converts to a valid polygon of
\* positive area that lies entirely inside the area polygon, and every
\* intersection was computed.
AllBlocksInside ==
    /\ processing_errors = << >>
    /\ \A k \in 1..Len(census_blocks) :
          /\ ~BlockPoly(census_blocks[k]).raised
          /\ is_valid(PolyOf(k))
          /\ BlockArea(k) > 0
          /\ InterArea(k) = BlockArea(k)

\* The sum of a field over the candidate blocks of the current area.
SumOfBlocks(field) ==
    SumSeq([k \in 1..Len(census_blocks) |-> census_blocks[k][field]])

\* C21: when every candidate block of an area is valid and entirely inside
\* the area polygon (proportion 1), the three policies agree: pop_all,
\* pop_gt50 and pop_wtd are the sum of the block populations, hu_all, hu_gt50
\* and hu_wtd the sum of the block housing units, and no_blocks_gt50 is the
\* number of candidate blocks.
C21_PoliciesAgreeInside ==
    (CurDone /\ pc # "raised" /\ AllBlocksInside) =>
        /\ CurSummary.pop_all = SumOfBlocks("POP100")
        /\ CurSummary.pop_gt50 = SumOfBlocks("POP100")
        /\ CurSummary.pop_wtd = SumOfBlocks("POP100")
        /\ CurSummary.hu_all = SumOfBlocks("HU100")
        /\ CurSummary.hu_gt50 = SumOfBlocks("HU100")
        /\ CurSummary.hu_wtd = SumOfBlocks("HU100")
        /\ CurSummary.no_blocks_gt50 = Len(census_blocks)

\* Two blocks of 122 and 3 people inside the area were summarised: the three
\* population sums are 125 and both blocks count as greater than 50%.
C21_Witness ==
    /\ CurDone
    /\ pc = "areas"
    /\ AllBlocksInside
    /\ Len(census_blocks) = 2
    /\ CurSummary.pop_all = 125
    /\ CurSummary.pop_gt50 = 125
    /\ CurSummary.pop_wtd = 125
    /\ CurSummary.no_blocks_gt50 = 2

\* The warnings the loop records for a list of candidate blocks: one for each
\* block whose polygon is invalid, in candidate order.
RECURSIVE BlockWarningsOf(_)
BlockWarningsOf(blocks) ==
    IF blocks = << >> THEN << >>
    ELSE LET poly == BlockPoly(Head(blocks)).poly
         IN  (IF is_valid(poly) THEN << >>
              ELSE << << "Unable to convert census block to valid polygon",
                         Head(blocks).GEOID, explain_validity(poly) >> >>)
                 \o BlockWarningsOf(Tail(blocks))

\* The polygon of the current area, computed from its rings alone.
OwnAreaPoly == as_shapely2(AreaRings, TRUE, TRUE).poly

\* The warnings of the current area, computed from the area and its candidate
\* blocks alone.
OwnWarnings ==
    (IF is_valid(OwnAreaPoly) THEN << >>
     ELSE << << "Unable to convert area to valid polygon",
                explain_validity(OwnAreaPoly) >> >>)
        \o BlockWarningsOf(census_blocks)

\* The accumulators of the current area, computed from the area and its
\* candidate blocks alone (less the blocks whose intersection raised).
OwnAggregates ==
    LoopAggregates(SelectSeq(census_blocks, LAMBDA b : b.GEOID \notin ErrorIds),
                   OwnAreaPoly)

\* C22: areas are processed independently: the summary and the fields written
\* for an area are those its own polygon, its own candidate blocks and the
\* caller's method give, whatever areas came before it; accumulators,
\* warnings and errors start afresh with each area; and what was produced for
\* an area is not touched while later areas are processed.
C22_AreasIndependent ==
    /\ [] ( (CurDone /\ pc = "areas") =>
               /\ AggregatesOf(CurSummary) = OwnAggregates
               /\ CurSummary.no_blocks_all = Len(census_blocks)
               /\ CurSummary.area_sq_mi = AreaSqMi(OwnAreaPoly)
               /\ ErrorIds \subseteq
                     { census_blocks[k].GEOID : k \in 1..Len(census_blocks) }
               /\ Len(processing_errors) <= Len(census_blocks)
               /\ processing_warnings = OwnWarnings
               /\ "WARNINGS" \in DOMAIN CurSummary <=> OwnWarnings # << >>
               /\ "WARNINGS" \in DOMAIN CurSummary =>
                     CurSummary.WARNINGS = OwnWarnings
               /\ "ERRORS" \in DOMAIN CurSummary =>
                     CurSummary.ERRORS = processing_errors
               /\ areas[Len(areas)] =
                     SetAreaSqMi(
                         ApplyMethod(AreaRow(Len(areas),
                                             areas[Len(areas)].SHAPE),
                                     method, OwnAggregates),
                         method, AreaSqMi(OwnAreaPoly)) )
    /\ [][ \A n \in DOMAIN areas_summary :
              /\ n \in DOMAIN areas_summary'
              /\ areas_summary'[n] = areas_summary[n]
              /\ areas'[n] = areas[n]
         ]_vars

\* Two areas were summarised, the first of nested shells and the second a
\* valid square, each with the same block in it: both have the block's
\* population and only the first has WARNINGS.
C22_Witness ==
    /\ pc = "areas"
    /\ Len(areas) = 2
    /\ DOMAIN areas_summary = {1, 2}
    /\ areas[1].SHAPE = "nested"
    /\ areas[2].SHAPE = "sq"
    /\ "WARNINGS" \in DOMAIN areas_summary[1]
    /\ "WARNINGS" \notin DOMAIN areas_summary[2]
    /\ areas_summary[1].pop_all = 3
    /\ areas_summary[2].pop_all = 3
    /\ areas_summary[2].no_blocks_all = 1

\* A block of the current area has been skipped, as invalid or for an
\* intersection error.
SomeBlockSkipped == ErrorIds # {} \/ WarningIds # {}

\* C23: per-area processing never stops early on a per-block issue: after a
\* block was skipped as invalid or for an intersection error, every later
\* candidate block is still taken by the loop, which goes on to the block
\* after it; and at the end every skipped block has exactly one entry in
\* WARNINGS or ERRORS.
C23_NeverStopsEarly ==
    /\ [][ (pc = "blocks" /\ j <= Len(census_blocks) /\ SomeBlockSkipped) =>
              /\ pc' = "blocks"
              /\ j' = j + 1
         ]_vars
    /\ [] ( (CurDone /\ pc = "areas") =>
               /\ j = Len(census_blocks) + 1
               /\ Len(processing_errors) = Cardinality(ErrorIds)
               /\ Len(processing_warnings) - Cardinality(AreaWarnings)
                     = Cardinality(WarningIds)
               /\ Cardinality(AreaWarnings) <= 1 )

\* C24: the processing-issues line is printed at the end of the run if and
\* only if some area's summary has an ERRORS or a WARNINGS entry; a summary
\* has ERRORS (WARNINGS) exactly when the area's list of errors (warnings) is
\* not empty; and the run that reaches its end returns a summary for every
\* area.
C24_IssuesSignal ==
    /\ pc = "returned" =>
          /\ printed <=>
                \E n \in DOMAIN areas_summary :
                    \/ "ERRORS" \in DOMAIN areas_summary[n]
                    \/ "WARNINGS" \in DOMAIN areas_summary[n]
          /\ DOMAIN areas_summary = 1..Len(areas)
    /\ pc # "returned" => ~printed
    /\ (CurDone /\ pc # "raised") =>
          /\ "ERRORS" \in DOMAIN CurSummary <=> processing_errors # << >>
          /\ "WARNINGS" \in DOMAIN CurSummary <=> processing_warnings # << >>
          /\ processing_errors # << >> =>
                CurSummary.ERRORS = processing_errors
          /\ processing_warnings # << >> =>
                CurSummary.WARNINGS = processing_warnings

\* A run of two areas returned and printed the line: the first area has
\* neither key, the second has WARNINGS.
C24_Witness ==
    /\ pc = "returned"
    /\ printed
    /\ DOMAIN areas_summary = {1, 2}
    /\ "ERRORS" \notin DOMAIN areas_summary[1]
    /\ "WARNINGS" \notin DOMAIN areas_summary[1]
    /\ "WARNINGS" \in DOMAIN areas_summary[2]
    /\ "ERRORS" \notin DOMAIN areas_summary[2]

\* C25: in a finished summary pop_gt50 <= pop_all, hu_gt50 <= hu_all and
\* no_blocks_gt50 <= no_blocks_all, and (every proportion being within 0 and
\* 1) pop_wtd <= pop_all and hu_wtd <= hu_all; the accumulators satisfy the
\* same at every block.
C25_PoliciesOrdered ==
    /\ \A n \in DOMAIN areas_summary :
          /\ areas_summary[n].pop_gt50 <= areas_summary[n].pop_all
          /\ areas_summary[n].hu_gt50 <= areas_summary[n].hu_all
          /\ areas_summary[n].no_blocks_gt50 <= areas_summary[n].no_blocks_all
          /\ areas_summary[n].pop_wtd <= areas_summary[n].pop_all
          /\ areas_summary[n].hu_wtd <= areas_summary[n].hu_all
          /\ areas_summary[n].pop_gt50 >= 0
          /\ areas_summary[n].pop_wtd >= 0
    /\ acc.pop_gt50 <= acc.pop_all
    /\ acc.hu_gt50 <= acc.hu_all
    /\ acc.pop_wtd <= acc.pop_all
    /\ acc.hu_wtd <= acc.hu_all
    /\ acc.blocks_gt50 <= Len(census_blocks)

\* A summary of two blocks, one of them more than half inside the area and
\* the other not: the gt50 and the weighted sums are positive and below the
\* 'all' sums.
C25_Witness ==
    /\ CurDone
    /\ pc = "areas"
    /\ Len(census_blocks) = 2
    /\ CurSummary.pop_gt50 > 0
    /\ CurSummary.pop_gt50 < CurSummary.pop_all
    /\ CurSummary.pop_wtd > 0
    /\ CurSummary.pop_wtd < CurSummary.pop_all
    /\ CurSummary.hu_gt50 < CurSummary.hu_all
    /\ CurSummary.no_blocks_gt50 < CurSummary.no_blocks_all

\* C26: no candidate block that passes the validity check has zero area, so
\* the division of the intersection area by the block's area never raises.
C26_DivisionNeverRaises ==
    /\ exception # "ZeroDivisionError"
    /\ (pc = "blocks" /\ j <= Len(census_blocks)
          /\ ~BlockPoly(census_blocks[j]).raised
          /\ is_valid(PolyOf(j))) => BlockArea(j) > 0

\* C27: within one run either every area that has a summary was sent to the
\* sink exactly once and its summary has update_results, or nothing was sent
\* and no summary has update_results.
C27_PersistenceUniform ==
    \/ /\ \A n \in DOMAIN areas_summary :
              /\ "update_results" \in DOMAIN areas_summary[n]
              /\ Cardinality({ k \in 1..Len(sink) : sink[k].objectid = n }) = 1
        /\ SentIds \subseteq DOMAIN areas_summary
    \/ /\ sink = << >>
        /\ \A n \in DOMAIN areas_summary :
              "update_results" \notin DOMAIN areas_summary[n]


\* C28: round_significant is idempotent on its domain: for every x >= 0 and
\* every precision p >= 1, rounding the value it returned once more with the
\* same precision returns that value again, also when the first rounding
\* carried into the next order of magnitude.
C28_Idempotent ==
    (RoundDone /\ call.x >= 0 /\ call.p >= 1) =>
        /\ pc = "returned"
        /\ result.returned
        /\ round_significant(result.value, call.p).raised = NoValue
        /\ round_significant(result.value, call.p).value = result.value

\* 995 at precision 2 came back as 1000, one digit longer than 995, and 1000
\* at precision 2 is 1000 again.
C28_Witness ==
    /\ pc = "returned"
    /\ call.x = 995
    /\ call.p = 2
    /\ result = Returned(1000)
    /\ Digits(result.value) = Digits(call.x) + 1
    /\ round_significant(1000, 2).value = 1000

\* C29: as_shapely2 leaves valid input alone: when the polygon assembled from
\* the rings is valid, the buffer is not applied and no warning is issued,
\* whatever the two flags are, and the geometry returned is the assembled one.
C29_ValidInputUntouched ==
    (ShapeDone /\ is_valid(Polys)) =>
        /\ ~result.value.fixed
        /\ warned = << >>
        /\ PolyShp = Polys
        /\ Region(PolyShp) = Region(Polys)
        /\ is_valid(PolyShp)

\* A valid polygon with a hole, converted with both flags set: it came back
\* as assembled and nothing was warned.
C29_Witness ==
    /\ ShapeDone
    /\ call.fix_self_intersections
    /\ call.warn_invalid
    /\ Len(call.rings) = 2
    /\ ExtIdx # {}
    /\ IntIdx # {}
    /\ is_valid(Polys)
    /\ \E k \in 1..Len(Polys) : Polys[k].holes # << >>
    /\ PolyShp = Polys
    /\ warned = << >>


\* The steps of initialize_dro in their order, by the place of the code and by
\* the item a request is about.
StepOfPc ==
    [p \in {"initialize_dro", "folder", "features", "publish", "sit_map",
            "sit_app", "ops_dashboard", "directors_brief", "finished"} |->
        CASE p = "initialize_dro" -> 0
          [] p = "folder" -> 1
          [] p = "features" -> 2
          [] p = "publish" -> 3
          [] p = "sit_map" -> 4
          [] p = "sit_app" -> 5
          [] p = "ops_dashboard" -> 6
          [] p = "directors_brief" -> 7
          [] p = "finished" -> 8]
StepItems ==
    << {"folder"}, {"features"}, {"feature_service"}, {"sit_map"},
       {"enterprisePanel", "sign_in", "Launch", "sit_app"},
       {"ops_dashboard"}, {"directors_brief"} >>
StepOfItem(item) == CHOOSE k \in 1..Len(StepItems) : item \in StepItems[k]

\* The steps that made a request, and the requests whose result the code
\* looks at (the result of a tagging is dropped).
StepsRequested == { StepOfItem(gis.log[i].item) : i \in 1..Len(gis.log) }
Looked(request) == request.op # "tag"

\* The user had a folder titled as the DRO before the call.
HadFolder == \E i \in 1..Len(call.gis.folders) :
                 call.gis.folders[i].title = call.dro_id

\* C30: initialize_dro runs its steps in a fixed order (password check,
\* folder, features template, publish, situational awareness map and app,
\* operations dashboard, director's brief) and stops at the first one that
\* reports a failure: nothing is requested after a failed request, the
\* password check raises before any folder or item is created, a folder
\* already titled as the DRO is taken instead of created again, and
\* 'Finished initializing DRO.' is reported only after every step succeeded.
C30_StepsInOrderUntilFailure ==
    /\ [](/\ \A a, b \in 1..Len(gis.log) :
                a < b => StepOfItem(gis.log[a].item) <= StepOfItem(gis.log[b].item)
          /\ \A i \in 1..(Len(gis.log) - 1) :
                Looked(gis.log[i]) => gis.log[i].ok
          /\ pc \in DOMAIN StepOfPc =>
                /\ \A k \in StepsRequested : k < StepOfPc[pc]
                /\ \A k \in 2..(StepOfPc[pc] - 1) : k \in StepsRequested
                /\ \A i \in 1..Len(gis.log) : Looked(gis.log[i]) => gis.log[i].ok
                /\ dro.spinner.state # "failed"
                /\ exception = NoValue
          /\ pc = "aborted" =>
                /\ dro.spinner.state = "failed"
                /\ gis.log # << >>
                /\ ~gis.log[Len(gis.log)].ok
                /\ Looked(gis.log[Len(gis.log)])
          /\ MissingPassword(call.gis.password) =>
                /\ pc \in {"initialize_dro", "raised"}
                /\ pc = "raised" => exception = "RuntimeError"
                /\ gis = call.gis
                /\ dro = NoDro
          /\ exception = "RuntimeError" => gis.log = << >>
          /\ HadFolder =>
                /\ gis.folders = call.gis.folders
                /\ 1 \notin StepsRequested
                /\ (pc \in DOMAIN StepOfPc /\ StepOfPc[pc] >= 2) =>
                      /\ dro.dro_folder.title = call.dro_id
                      /\ \E i \in 1..Len(call.gis.folders) :
                            call.gis.folders[i] = dro.dro_folder
          /\ Cardinality({ i \in 1..Len(gis.folders) :
                             gis.folders[i].title = call.dro_id }) <= 1
          /\ dro.spinner.state = "succeeded" <=> pc = "finished"
          /\ pc = "finished" =>
                /\ dro.spinner.text = "Finished initializing DRO."
                /\ \A k \in 2..7 : k \in StepsRequested
                /\ HadFolder \/ 1 \in StepsRequested)
    /\ [][/\ pc' # pc =>
               \/ pc' \in {"aborted", "raised"}
               \/ StepOfPc[pc'] = StepOfPc[pc] + 1
          /\ Len(gis'.log) >= Len(gis.log)
          /\ SubSeq(gis'.log, 1, Len(gis.log)) = gis.log
          /\ pc \in {"aborted", "raised", "finished"} => gis' = gis]_vars

\* The user had the DRO's folder: it was taken, the features template and the
\* feature service were made, then the move of the situational awareness map
\* failed and nothing else was requested.
C30_Witness ==
    /\ pc = "aborted"
    /\ HadFolder
    /\ gis.folders = call.gis.folders
    /\ dro.dro_folder.title = call.dro_id
    /\ StepsRequested = {2, 3, 4}
    /\ gis.log[Len(gis.log)] = Request("move", "sit_map", FALSE)
    /\ dro.spinner = Spinner("failed", "Failed to move situational awareness map to DRO folder. Initialization aborted.")

====
